---- MODULE Spec2Model ----
(***************************************************************************)
(* The matching/ranking engine of resume-screener-backend:                 *)
(*   src/src/services/search_handler.py   SearchHandler                    *)
(*   src/src/services/rank_handler.py     RankHandler                      *)
(*   src/src/database/candidate_crud.py   create_candidate_profile         *)
(*   src/src/database/job_crud.py         create_job                       *)
(*   src/src/api/candidate_endpoints.py   upload_resume                    *)
(*                                                                         *)
(* Python floats are modelled as exact rationals [n, d] in lowest terms    *)
(* with d > 0; Python values that may be None, a string, a list or a dict  *)
(* are tagged records [t, v].  Embedding vectors are drawn with an         *)
(* integral Euclidean norm, so that every cosine is an exact rational.     *)
(***************************************************************************)
EXTENDS Integers, Sequences, FiniteSets, TLC

VARIABLES
    candidates,   \* the candidate_profiles table, in row order
    jobs,         \* the jobs table, in row order
    raw_resumes,  \* the raw_resumes collection of the document store
    call,         \* the evaluation call being answered, or the idle call
    scan,         \* the per-candidate scores computed by the call's loop
    results,      \* the list the call returns
    outcome       \* how the call ended

vars == <<candidates, jobs, raw_resumes, call, scan, results, outcome>>

-----------------------------------------------------------------------------
(* Bounds of the model *)

MaxCandidates == 2

-----------------------------------------------------------------------------
(* Exact rational arithmetic standing for Python float arithmetic *)

Abs(i) == IF i < 0 THEN -i ELSE i

Min(a, b) == IF a <= b THEN a ELSE b

Max(a, b) == IF a >= b THEN a ELSE b

RECURSIVE Gcd(_, _)
Gcd(a, b) == IF b = 0 THEN a ELSE Gcd(b, a % b)

Rat(n, d) ==
    LET g == Gcd(Abs(n), Abs(d))
        s == IF d < 0 THEN -1 ELSE 1
    IN  [n |-> (s * n) \div g, d |-> (s * d) \div g]

RInt(i) == [n |-> i, d |-> 1]

RAdd(a, b) == Rat(a.n * b.d + b.n * a.d, a.d * b.d)

RSub(a, b) == Rat(a.n * b.d - b.n * a.d, a.d * b.d)

RMul(a, b) == Rat(a.n * b.n, a.d * b.d)

RDiv(a, b) == Rat(a.n * b.d, a.d * b.n)

RAbs(a) == [n |-> Abs(a.n), d |-> a.d]

RLe(a, b) == a.n * b.d <= b.n * a.d

RLt(a, b) == a.n * b.d < b.n * a.d

REq(a, b) == a.n * b.d = b.n * a.d

RMax(a, b) == IF RLe(a, b) THEN b ELSE a

RMin(a, b) == IF RLe(a, b) THEN a ELSE b

-----------------------------------------------------------------------------
(* Python values *)

None == [t |-> "None", v |-> 0]

Float(r) == [t |-> "float", v |-> r]

Str(s) == [t |-> "str", v |-> s]

List(s) == [t |-> "list", v |-> s]

Dict(f) == [t |-> "dict", v |-> f]

IsNone(x) == x.t = "None"

(* Python truth value: None, 0, "", [] and {} are false *)
Truthy(x) ==
    CASE x.t = "None"  -> FALSE
      [] x.t = "float" -> x.v.n # 0
      [] x.t = "str"   -> Len(x.v) > 0
      [] x.t = "list"  -> Len(x.v) > 0
      [] x.t = "dict"  -> DOMAIN x.v # {}

(* dict.get(key, default) *)
Get(d, key, default) == IF key \in DOMAIN d.v THEN d.v[key] ELSE default

EmptyDict == Dict([k \in {} |-> None])

(* A list comprehension: the list is built once, element by element *)
AsList(f) == f \o <<>>

-----------------------------------------------------------------------------
(* Binary floating point.  The cosine of the skills functions is computed by
   numpy in IEEE 754 binary64: the dot product of small integer vectors is
   exact, the norm is a correctly rounded square root, and the product of the
   norms and the quotient are each rounded to nearest, ties to even.  A
   nonzero float is sign * m * 2^e with 2^52 <= m < 2^53; m is a natural
   number kept as a little-endian sequence of 15-bit limbs. *)

LimbBase == 2^15

RECURSIVE BigTrim(_)
BigTrim(a) ==
    IF Len(a) = 0 THEN a
    ELSE IF a[Len(a)] = 0 THEN BigTrim(SubSeq(a, 1, Len(a) - 1))
    ELSE a

BigOfInt(n) ==
    BigTrim(<<n % LimbBase, (n \div LimbBase) % LimbBase,
              n \div (LimbBase * LimbBase)>>)

RECURSIVE BigLessAt(_, _, _)
BigLessAt(a, b, i) ==
    IF i = 0 THEN FALSE
    ELSE IF a[i] # b[i] THEN a[i] < b[i]
    ELSE BigLessAt(a, b, i - 1)

BigLess(a, b) ==
    LET x == BigTrim(a)
        y == BigTrim(b)
    IN  IF Len(x) # Len(y) THEN Len(x) < Len(y) ELSE BigLessAt(x, y, Len(x))

BigEq(a, b) == BigTrim(a) = BigTrim(b)

RECURSIVE BigAdd(_, _, _)
BigAdd(a, b, carry) ==
    IF Len(a) = 0 /\ Len(b) = 0
    THEN IF carry = 0 THEN <<>> ELSE <<carry>>
    ELSE LET x == (IF Len(a) > 0 THEN a[1] ELSE 0)
                  + (IF Len(b) > 0 THEN b[1] ELSE 0) + carry
         IN  <<x % LimbBase>>
             \o BigAdd(IF Len(a) > 0 THEN Tail(a) ELSE a,
                       IF Len(b) > 0 THEN Tail(b) ELSE b, x \div LimbBase)

(* a - b for a >= b *)
RECURSIVE BigSub(_, _, _)
BigSub(a, b, borrow) ==
    IF Len(a) = 0 THEN <<>>
    ELSE LET x == a[1] - (IF Len(b) > 0 THEN b[1] ELSE 0) - borrow
         IN  <<x % LimbBase>>
             \o BigSub(Tail(a), IF Len(b) > 0 THEN Tail(b) ELSE b,
                       IF x < 0 THEN 1 ELSE 0)

RECURSIVE BigMulLimb(_, _, _)
BigMulLimb(a, d, carry) ==
    IF Len(a) = 0
    THEN IF carry = 0 THEN <<>> ELSE <<carry>>
    ELSE LET x == a[1] * d + carry
         IN  <<x % LimbBase>> \o BigMulLimb(Tail(a), d, x \div LimbBase)

RECURSIVE BigMul(_, _)
BigMul(a, b) ==
    IF Len(a) = 0 THEN <<>>
    ELSE BigAdd(BigMulLimb(b, a[1], 0), <<0>> \o BigMul(Tail(a), b), 0)

(* a * 2^k *)
BigShl(a, k) ==
    [i \in 1..(k \div 15) |-> 0] \o BigMulLimb(a, 2^(k % 15), 0)

(* a \div 2^k *)
BigShr(a, k) ==
    LET limbs == k \div 15
        j == k % 15
        b == SubSeq(a, limbs + 1, Len(a))
    IN  AsList([i \in 1..Len(b) |->
                   b[i] \div 2^j
                   + (IF i < Len(b) THEN (b[i + 1] % 2^j) * 2^(15 - j) ELSE 0)])

BigOdd(a) == Len(a) > 0 /\ a[1] % 2 = 1

LimbBits(x) == CHOOSE k \in 0..15 : x < 2^k /\ (k = 0 \/ x >= 2^(k - 1))

BigBitLen(a) ==
    LET x == BigTrim(a)
    IN  IF Len(x) = 0 THEN 0 ELSE 15 * (Len(x) - 1) + LimbBits(x[Len(x)])

(* The integer square root, settled bit by bit from bit hi down to bit lo (the
   upper half of the bits before the lower half): acc.s is the root so far
   and acc.p its square; the result is the largest s with s * s <= x *)
RECURSIVE BigIsqrtBits(_, _, _, _)
BigIsqrtBits(x, acc, hi, lo) ==
    IF hi < lo THEN acc
    ELSE IF hi = lo
    THEN LET p == BigAdd(BigAdd(acc.p, BigShl(acc.s, hi + 1), 0),
                         BigShl(<<1>>, 2 * hi), 0)
         IN  IF BigLess(x, p) THEN acc
             ELSE [s |-> BigAdd(acc.s, BigShl(<<1>>, hi), 0), p |-> p]
    ELSE LET mid == (hi + lo) \div 2
             upper == BigIsqrtBits(x, acc, hi, mid + 1)
         IN  IF Len(upper.s) >= 0 THEN BigIsqrtBits(x, upper, mid, lo) ELSE upper

BigIsqrt(x) ==
    BigIsqrtBits(x, [s |-> <<>>, p |-> <<>>], (BigBitLen(x) + 1) \div 2, 0)

(* The integer quotient, settled bit by bit from bit hi down to bit lo: acc.q
   is the quotient so far and acc.p its product with d; the result is the
   largest q with q * d <= n *)
RECURSIVE BigDivBits(_, _, _, _, _)
BigDivBits(n, d, acc, hi, lo) ==
    IF hi < lo THEN acc
    ELSE IF hi = lo
    THEN LET p == BigAdd(acc.p, BigShl(d, hi), 0)
         IN  IF BigLess(n, p) THEN acc
             ELSE [q |-> BigAdd(acc.q, BigShl(<<1>>, hi), 0), p |-> p]
    ELSE LET mid == (hi + lo) \div 2
             upper == BigDivBits(n, d, acc, hi, mid + 1)
         IN  IF Len(upper.q) >= 0 THEN BigDivBits(n, d, upper, mid, lo) ELSE upper

BigDiv(n, d) ==
    BigDivBits(n, d, [q |-> <<>>, p |-> <<>>],
               Max(BigBitLen(n) - BigBitLen(d) + 1, 0), 0)

F64Zero == [sign |-> 0, m |-> <<>>, e |-> 0]

(* sign * x * 2^e for x of at most 54 bits, the 54-bit case being 2^53 *)
F64Normal(sign, x, e) ==
    LET bits == BigBitLen(x)
    IN  IF bits > 53 THEN [sign |-> sign, m |-> BigTrim(BigShr(x, 1)), e |-> e + 1]
        ELSE [sign |-> sign, m |-> BigTrim(BigShl(x, 53 - bits)),
              e |-> e - (53 - bits)]

(* x * 2^e rounded to 53 significant bits, to nearest, ties to even; sticky
   tells whether the exact value has something nonzero below x *)
F64Round(sign, x, e, sticky) ==
    LET shift == BigBitLen(x) - 53
    IN  IF shift <= 0 THEN F64Normal(sign, x, e)
        ELSE LET m == BigShr(x, shift)
                 upper == BigShr(x, shift - 1)
                 round == BigOdd(upper)
                 below == sticky \/ ~BigEq(BigShl(upper, shift - 1), x)
             IN  IF round /\ (below \/ BigOdd(m))
                 THEN F64Normal(sign, BigAdd(m, <<1>>, 0), e + shift)
                 ELSE F64Normal(sign, m, e + shift)

F64OfInt(n) ==
    IF n = 0 THEN F64Zero
    ELSE F64Round(IF n < 0 THEN -1 ELSE 1, BigOfInt(Abs(n)), 0, FALSE)

(* np.sqrt of a non-negative integer *)
F64Sqrt(n) ==
    IF n = 0 THEN F64Zero
    ELSE LET x == BigShl(BigOfInt(n), 106)
             root == BigIsqrt(x)
         IN  F64Round(1, root.s, -53, ~BigEq(root.p, x))

F64Mul(a, b) ==
    IF a.sign = 0 \/ b.sign = 0 THEN F64Zero
    ELSE F64Round(a.sign * b.sign, BigMul(a.m, b.m), a.e + b.e, FALSE)

(* a / b for b # 0 *)
F64Div(a, b) ==
    IF a.sign = 0 THEN F64Zero
    ELSE LET n == BigShl(a.m, 56)
             quotient == BigDiv(n, b.m)
         IN  F64Round(a.sign * b.sign, quotient.q, a.e - 56 - b.e,
                      ~BigEq(quotient.p, n))

(* a + b: the exact sum, rounded *)
F64Add(a, b) ==
    IF a.sign = 0 THEN b
    ELSE IF b.sign = 0 THEN a
    ELSE LET e == Min(a.e, b.e)
             x == BigShl(a.m, a.e - e)
             y == BigShl(b.m, b.e - e)
         IN  IF a.sign = b.sign THEN F64Round(a.sign, BigAdd(x, y, 0), e, FALSE)
             ELSE IF BigEq(x, y) THEN F64Zero
             ELSE IF BigLess(x, y)
                  THEN F64Round(b.sign, BigTrim(BigSub(y, x, 0)), e, FALSE)
                  ELSE F64Round(a.sign, BigTrim(BigSub(x, y, 0)), e, FALSE)

F64Less(a, b) ==
    IF a.sign # b.sign THEN a.sign < b.sign
    ELSE IF a.sign = 0 THEN FALSE
    ELSE IF a.sign = 1
         THEN a.e < b.e \/ (a.e = b.e /\ BigLess(a.m, b.m))
         ELSE b.e < a.e \/ (a.e = b.e /\ BigLess(b.m, a.m))

F64Max(a, b) == IF F64Less(a, b) THEN b ELSE a

F64Min(a, b) == IF F64Less(b, a) THEN b ELSE a

F64One == F64OfInt(1)

(* the float nearest to a rational *)
F64OfRat(r) == F64Div(F64OfInt(r.n), F64OfInt(r.d))

-----------------------------------------------------------------------------
(* Similarity toolkit *)

RECURSIVE Dot(_, _)
Dot(a, b) == IF Len(a) = 0 THEN 0 ELSE a[1] * b[1] + Dot(Tail(a), Tail(b))

(* np.linalg.norm on a vector whose squared length is a perfect square *)
ISqrt(d) == CHOOSE r \in 0..d : r * r = d

Norm(a) == ISqrt(Dot(a, a))

Cosine(a, b) == Rat(Dot(a, b), Norm(a) * Norm(b))

RECURSIVE MaxOf(_)
MaxOf(s) == IF Len(s) = 1 THEN s[1] ELSE RMax(s[1], MaxOf(Tail(s)))

RECURSIVE SumOf(_)
SumOf(s) == IF Len(s) = 0 THEN RInt(0) ELSE RAdd(s[1], SumOf(Tail(s)))

(* SearchHandler.calculate_skills_similarity: the best cosine over the query
   vectors, not clamped; vectors with a zero norm add no similarity *)
RECURSIVE Similarities(_, _)
Similarities(vecs, cv) ==
    IF Len(vecs) = 0 THEN <<>>
    ELSE LET vec == vecs[1]
             rest == Similarities(Tail(vecs), cv)
         IN  IF Norm(vec) # 0 /\ Norm(cv) # 0
             THEN <<Cosine(vec, cv)>> \o rest
             ELSE rest

calculate_skills_similarity(query_vectors, candidate_vector) ==
    IF ~Truthy(query_vectors) \/ ~Truthy(candidate_vector) THEN RInt(0)
    ELSE LET similarities == Similarities(query_vectors.v, candidate_vector.v)
         IN  IF Len(similarities) > 0 THEN MaxOf(similarities) ELSE RInt(0)

(* RankHandler.calculate_skills_match: the cosine clamped into [0, 1] *)
calculate_skills_match(candidate_vector, job_vector) ==
    IF ~Truthy(candidate_vector) \/ ~Truthy(job_vector) THEN RInt(0)
    ELSE IF Norm(candidate_vector.v) # 0 /\ Norm(job_vector.v) # 0
         THEN RMax(RInt(0), RMin(RInt(1), Cosine(candidate_vector.v, job_vector.v)))
         ELSE RInt(0)

(* The skills functions in binary64, for vectors of any norm.  On vectors
   whose norms are integers every rounding but the last is exact, and the
   result is the float nearest to what the exact functions above give. *)
Norm64(a) == F64Sqrt(Dot(a, a))

Cosine64(a, b) == F64Div(F64OfInt(Dot(a, b)), F64Mul(Norm64(a), Norm64(b)))

RECURSIVE MaxOf64(_)
MaxOf64(s) == IF Len(s) = 1 THEN s[1] ELSE F64Max(s[1], MaxOf64(Tail(s)))

RECURSIVE Similarities64(_, _)
Similarities64(vecs, cv) ==
    IF Len(vecs) = 0 THEN <<>>
    ELSE LET vec == vecs[1]
             rest == Similarities64(Tail(vecs), cv)
         IN  IF Dot(vec, vec) # 0 /\ Dot(cv, cv) # 0
             THEN <<Cosine64(vec, cv)>> \o rest
             ELSE rest

calculate_skills_similarity_float64(query_vectors, candidate_vector) ==
    IF ~Truthy(query_vectors) \/ ~Truthy(candidate_vector) THEN F64Zero
    ELSE LET similarities == Similarities64(query_vectors.v, candidate_vector.v)
         IN  IF Len(similarities) > 0 THEN MaxOf64(similarities) ELSE F64Zero

skills_match_unclamped_float64(candidate_vector, job_vector) ==
    IF ~Truthy(candidate_vector) \/ ~Truthy(job_vector) THEN F64Zero
    ELSE IF Dot(candidate_vector.v, candidate_vector.v) # 0
            /\ Dot(job_vector.v, job_vector.v) # 0
         THEN Cosine64(candidate_vector.v, job_vector.v)
         ELSE F64Zero

calculate_skills_match_float64(candidate_vector, job_vector) ==
    IF ~Truthy(candidate_vector) \/ ~Truthy(job_vector) THEN F64Zero
    ELSE IF Dot(candidate_vector.v, candidate_vector.v) # 0
            /\ Dot(job_vector.v, job_vector.v) # 0
         THEN F64Max(F64Zero,
                     F64Min(F64One, Cosine64(candidate_vector.v, job_vector.v)))
         ELSE F64Zero

(* Strings are sequences of characters *)
Lower(c) == CASE c = "A" -> "a" [] c = "B" -> "b" [] OTHER -> c

LowerStr(s) == AsList([i \in 1..Len(s) |-> Lower(s[i])])

RECURSIVE Strip(_)
Strip(s) ==
    IF Len(s) = 0 THEN s
    ELSE IF s[1] = " " THEN Strip(Tail(s))
    ELSE IF s[Len(s)] = " " THEN Strip(SubSeq(s, 1, Len(s) - 1))
    ELSE s

(* str.split(','): always at least one part *)
RECURSIVE Split(_)
Split(s) ==
    IF \A i \in 1..Len(s) : s[i] # "," THEN <<s>>
    ELSE LET k == CHOOSE i \in 1..Len(s) :
                      s[i] = "," /\ \A j \in 1..(i - 1) : s[j] # ","
         IN  <<SubSeq(s, 1, k - 1)>> \o Split(SubSeq(s, k + 1, Len(s)))

Parts(s) == LET p == Split(s) IN AsList([i \in 1..Len(p) |-> LowerStr(Strip(p[i]))])

(* a in b for strings *)
IsSubstring(a, b) ==
    \E i \in 0..(Len(b) - Len(a)) : SubSeq(b, i + 1, i + Len(a)) = a

PartSimilarityByShorter(query_part, candidate_part) ==
    IF query_part = candidate_part THEN RInt(1)
    ELSE IF IsSubstring(query_part, candidate_part)
            \/ IsSubstring(candidate_part, query_part) THEN Rat(9, 10)
    ELSE LET shorter == Min(Len(query_part), Len(candidate_part))
             matches == Cardinality({i \in 1..shorter :
                                        query_part[i] = candidate_part[i]})
         IN  IF shorter = 0 THEN RInt(0) ELSE Rat(matches, shorter)

PartSimilaritySubstringExact(query_part, candidate_part) ==
    IF IsSubstring(query_part, candidate_part)
       \/ IsSubstring(candidate_part, query_part) THEN RInt(1)
    ELSE LET shorter == Min(Len(query_part), Len(candidate_part))
             longer == Max(Len(query_part), Len(candidate_part))
             matches == Cardinality({i \in 1..shorter :
                                        query_part[i] = candidate_part[i]})
         IN  IF longer = 0 THEN RInt(0) ELSE Rat(matches, longer)

(* the similarity of one query part with one candidate part *)
PartSimilarity(query_part, candidate_part) ==
    IF query_part = candidate_part THEN RInt(1)
    ELSE IF IsSubstring(query_part, candidate_part)
            \/ IsSubstring(candidate_part, query_part) THEN Rat(9, 10)
    ELSE LET shorter == Min(Len(query_part), Len(candidate_part))
             longer == Max(Len(query_part), Len(candidate_part))
             matches == Cardinality({i \in 1..shorter :
                                        query_part[i] = candidate_part[i]})
         IN  IF longer = 0 THEN RInt(0) ELSE Rat(matches, longer)

location_match_unguarded(query_location, candidate_location) ==
    IF IsNone(query_location) \/ IsNone(candidate_location) THEN RInt(0)
    ELSE LET query_parts == Parts(query_location.v)
             candidate_parts == Parts(candidate_location.v)
             max_similarities ==
                 AsList([q \in 1..Len(query_parts) |->
                     MaxOf(AsList([c \in 1..Len(candidate_parts) |->
                         PartSimilarity(query_parts[q], candidate_parts[c])]))])
         IN  RDiv(SumOf(max_similarities), RInt(Len(query_parts)))

(* SearchHandler.calculate_location_match *)
calculate_location_match(query_location, candidate_location) ==
    IF ~Truthy(query_location) \/ ~Truthy(candidate_location) THEN RInt(0)
    ELSE LET query_parts == Parts(query_location.v)
             candidate_parts == Parts(candidate_location.v)
             max_similarities ==
                 AsList([q \in 1..Len(query_parts) |->
                     MaxOf(AsList([c \in 1..Len(candidate_parts) |->
                         PartSimilarity(query_parts[q], candidate_parts[c])]))])
         IN  RDiv(SumOf(max_similarities), RInt(Len(query_parts)))

ExperienceStepStrict(difference_years) ==
    IF difference_years.n = 0 THEN RInt(1)
    ELSE IF RLt(difference_years, RInt(1)) THEN Rat(9, 10)
    ELSE IF RLt(difference_years, RInt(2)) THEN Rat(7, 10)
    ELSE IF RLt(difference_years, RInt(3)) THEN Rat(5, 10)
    ELSE IF RLt(difference_years, RInt(4)) THEN Rat(3, 10)
    ELSE Rat(1, 10)

(* The step function of the gap in years *)
ExperienceStep(difference_years) ==
    IF difference_years.n = 0 THEN RInt(1)
    ELSE IF RLe(difference_years, RInt(1)) THEN Rat(9, 10)
    ELSE IF RLe(difference_years, RInt(2)) THEN Rat(7, 10)
    ELSE IF RLe(difference_years, RInt(3)) THEN Rat(5, 10)
    ELSE IF RLe(difference_years, RInt(4)) THEN Rat(3, 10)
    ELSE Rat(1, 10)

search_experience_match_signed(candidate_experience, required_experience) ==
    IF IsNone(candidate_experience) \/ IsNone(required_experience) THEN RInt(0)
    ELSE IF candidate_experience.t # "float" \/ required_experience.t # "float"
         THEN RInt(0)
    ELSE ExperienceStep(RSub(candidate_experience.v, required_experience.v))

(* SearchHandler.calculate_experience_match; a non-numeric operand makes the
   subtraction raise, which the function catches and answers with 0 *)
search_calculate_experience_match(candidate_experience, required_experience) ==
    IF IsNone(candidate_experience) \/ IsNone(required_experience) THEN RInt(0)
    ELSE IF candidate_experience.t # "float" \/ required_experience.t # "float"
         THEN RInt(0)
    ELSE ExperienceStep(RAbs(RSub(candidate_experience.v, required_experience.v)))

(* RankHandler.calculate_experience_match *)
rank_calculate_experience_match(candidate_experience, required_experience) ==
    IF IsNone(candidate_experience) \/ IsNone(required_experience) THEN RInt(0)
    ELSE IF candidate_experience.t # "float" \/ required_experience.t # "float"
         THEN RInt(0)
    ELSE ExperienceStep(RAbs(RSub(candidate_experience.v, required_experience.v)))

-----------------------------------------------------------------------------
(* Shared plumbing of the two orchestrators *)

(* x or 0.0 on an optional score *)
OrZero(x) == IF Truthy(x) THEN x.v ELSE RInt(0)

(* candidate.parsed_resume.get("personal_info", {}) *)
PersonalInfo(candidate) == Get(candidate.parsed_resume, "personal_info", EmptyDict)

(* .get on something that is not a dict raises AttributeError *)
LocationRaises(candidate) ==
    \/ candidate.parsed_resume.t # "dict"
    \/ PersonalInfo(candidate).t # "dict"

(* candidate.parsed_resume.get("personal_info", {}).get("location") *)
CandidateLocation(candidate) == Get(PersonalInfo(candidate), "location", None)

(* sorted(entries, key=total, reverse=True): stable, descending *)
InsertUnsorted(sorted, x) == Append(sorted, x)

RECURSIVE InsertDescBeforeEqual(_, _)
InsertDescBeforeEqual(sorted, x) ==
    IF Len(sorted) = 0 THEN <<x>>
    ELSE IF RLe(sorted[1].total_score, x.total_score)
         THEN <<x>> \o sorted
         ELSE <<sorted[1]>> \o InsertDescBeforeEqual(Tail(sorted), x)

RECURSIVE InsertDesc(_, _)
InsertDesc(sorted, x) ==
    IF Len(sorted) = 0 THEN <<x>>
    ELSE IF RLt(sorted[1].total_score, x.total_score)
         THEN <<x>> \o sorted
         ELSE <<sorted[1]>> \o InsertDesc(Tail(sorted), x)

RECURSIVE SortedDesc(_)
SortedDesc(entries) ==
    IF Len(entries) = 0 THEN <<>>
    ELSE InsertDesc(SortedDesc(SubSeq(entries, 1, Len(entries) - 1)),
                    entries[Len(entries)])

(* seq[:limit], a negative limit counting from the end *)
Slice(seq, limit) ==
    IF limit >= 0 THEN SubSeq(seq, 1, Min(limit, Len(seq)))
    ELSE SubSeq(seq, 1, Max(Len(seq) + limit, 0))

(* results.append(...) of search_candidates: the scanned candidates with an
   applied weight whose final score clears the threshold, in scan order *)
RECURSIVE SearchKeptUnweighted(_, _, _)
SearchKeptUnweighted(scanned, i, min_score) ==
    IF i > Len(scanned) THEN <<>>
    ELSE IF RLe(min_score, scanned[i].total_score)
         THEN <<[candidate |-> i,
                 skills_score |-> OrZero(scanned[i].skills_score),
                 location_score |-> OrZero(scanned[i].location_score),
                 experience_score |-> OrZero(scanned[i].experience_score),
                 total_score |-> scanned[i].total_score]>>
              \o SearchKeptUnweighted(scanned, i + 1, min_score)
         ELSE SearchKeptUnweighted(scanned, i + 1, min_score)

RECURSIVE SearchKept(_, _, _)
SearchKept(scanned, i, min_score) ==
    IF i > Len(scanned) THEN <<>>
    ELSE IF scanned[i].applied /\ RLe(min_score, scanned[i].total_score)
         THEN <<[candidate |-> i,
                 skills_score |-> OrZero(scanned[i].skills_score),
                 location_score |-> OrZero(scanned[i].location_score),
                 experience_score |-> OrZero(scanned[i].experience_score),
                 total_score |-> scanned[i].total_score]>>
              \o SearchKept(scanned, i + 1, min_score)
         ELSE SearchKept(scanned, i + 1, min_score)

-----------------------------------------------------------------------------
(* Search orchestrator *)

search_weights ==
    [skills |-> Rat(6, 10), location |-> Rat(2, 10), experience |-> Rat(2, 10)]

(* One pass of the loop body of search_candidates, up to the final score *)
SearchOne(candidate, a) ==
    LET doSkills == Truthy(a.skills_vectors) /\ Truthy(candidate.resume_vector)
        skills_score ==
            IF doSkills
            THEN Float(calculate_skills_similarity(a.skills_vectors,
                                                   candidate.resume_vector))
            ELSE None
        locRaises == Truthy(a.location) /\ LocationRaises(candidate)
        doLocation == Truthy(a.location) /\ ~locRaises
                      /\ Truthy(CandidateLocation(candidate))
        location_score ==
            IF doLocation
            THEN Float(calculate_location_match(a.location,
                                                CandidateLocation(candidate)))
            ELSE None
        doExperience == Truthy(a.required_experience)
                        /\ ~(candidate.total_experience.t = "str"
                             /\ Len(candidate.total_experience.v) = 0)
        experience_score ==
            IF doExperience
            THEN Float(search_calculate_experience_match(candidate.total_experience,
                                                         a.required_experience))
            ELSE None
        total_score ==
            RAdd(RAdd(IF doSkills THEN RMul(skills_score.v, search_weights.skills)
                      ELSE RInt(0),
                      IF doLocation THEN RMul(location_score.v, search_weights.location)
                      ELSE RInt(0)),
                 IF doExperience THEN RMul(experience_score.v, search_weights.experience)
                 ELSE RInt(0))
        total_weight ==
            RAdd(RAdd(IF doSkills THEN search_weights.skills ELSE RInt(0),
                      IF doLocation THEN search_weights.location ELSE RInt(0)),
                 IF doExperience THEN search_weights.experience ELSE RInt(0))
    IN  [raises |-> locRaises,
         skills_score |-> skills_score,
         location_score |-> location_score,
         experience_score |-> experience_score,
         weighted_sum |-> total_score,
         total_weight |-> total_weight,
         applied |-> total_weight.n > 0,
         total_score |-> IF total_weight.n > 0
                         THEN RDiv(total_score, total_weight) ELSE RInt(0)]

(* The loop of search_candidates over the fetched candidates; an exception
   ends the loop at the candidate that raised it *)
SearchScan(fetched, a) ==
    LET scanned == AsList([i \in 1..Len(fetched) |-> SearchOne(fetched[i], a)])
        raisers == {i \in 1..Len(fetched) : scanned[i].raises}
    IN  IF raisers = {} THEN scanned
        ELSE SubSeq(scanned, 1, CHOOSE i \in raisers : \A j \in raisers : i <= j)

(* An exception raised in the loop left the handler *)
Raised(scanned) == Len(scanned) > 0 /\ scanned[Len(scanned)].raises

SearchReturnUnweighted(scanned, min_score, limit) ==
    IF Raised(scanned) THEN <<>>
    ELSE Slice(SortedDesc(SearchKeptUnweighted(scanned, 1, min_score)), limit)

(* What SearchHandler.search_candidates returns after its loop: the exception
   propagates, or the kept entries are sorted and cut to the limit *)
SearchReturn(scanned, min_score, limit) ==
    IF Raised(scanned) THEN <<>>
    ELSE Slice(SortedDesc(SearchKept(scanned, 1, min_score)), limit)

RECURSIVE MinOf64(_)
MinOf64(s) == IF Len(s) = 1 THEN s[1] ELSE F64Min(s[1], MinOf64(Tail(s)))

(* The sum np.mean takes of a short array: the elements are added one after
   the other, each partial sum rounded *)
RECURSIVE SumOf64(_)
SumOf64(s) ==
    IF Len(s) = 0 THEN F64Zero
    ELSE F64Add(SumOf64(SubSeq(s, 1, Len(s) - 1)), s[Len(s)])

search_summary_inclusive(search_results) ==
    IF Len(search_results) = 0
    THEN [count |-> 0, avg_score |-> F64Zero, max_score |-> F64Zero,
          min_score |-> F64Zero,
          score_distribution |-> [excellent |-> 0, good |-> 0, fair |-> 0]]
    ELSE LET scores == AsList([i \in 1..Len(search_results) |->
                                  search_results[i].total_score])
         IN  [count |-> Len(search_results),
              avg_score |-> F64Div(SumOf64(scores), F64OfInt(Len(scores))),
              max_score |-> MaxOf64(scores),
              min_score |-> MinOf64(scores),
              score_distribution |->
                  [excellent |-> Cardinality({i \in 1..Len(scores) :
                                     ~F64Less(scores[i], F64OfRat(Rat(8, 10)))}),
                   good |-> Cardinality({i \in 1..Len(scores) :
                                ~F64Less(scores[i], F64OfRat(Rat(6, 10)))
                                /\ ~F64Less(F64OfRat(Rat(8, 10)), scores[i])}),
                   fair |-> Cardinality({i \in 1..Len(scores) :
                                ~F64Less(scores[i], F64OfRat(Rat(5, 10)))
                                /\ ~F64Less(F64OfRat(Rat(6, 10)), scores[i])})]]

(* SearchHandler.get_search_summary, on float64 totals *)
get_search_summary(search_results) ==
    IF Len(search_results) = 0
    THEN [count |-> 0, avg_score |-> F64Zero, max_score |-> F64Zero,
          min_score |-> F64Zero,
          score_distribution |-> [excellent |-> 0, good |-> 0, fair |-> 0]]
    ELSE LET scores == AsList([i \in 1..Len(search_results) |->
                                  search_results[i].total_score])
         IN  [count |-> Len(search_results),
              avg_score |-> F64Div(SumOf64(scores), F64OfInt(Len(scores))),
              max_score |-> MaxOf64(scores),
              min_score |-> MinOf64(scores),
              score_distribution |->
                  [excellent |-> Cardinality({i \in 1..Len(scores) :
                                     ~F64Less(scores[i], F64OfRat(Rat(8, 10)))}),
                   good |-> Cardinality({i \in 1..Len(scores) :
                                ~F64Less(scores[i], F64OfRat(Rat(6, 10)))
                                /\ F64Less(scores[i], F64OfRat(Rat(8, 10)))}),
                   fair |-> Cardinality({i \in 1..Len(scores) :
                                ~F64Less(scores[i], F64OfRat(Rat(5, 10)))
                                /\ F64Less(scores[i], F64OfRat(Rat(6, 10)))})]]

-----------------------------------------------------------------------------
(* Ranking orchestrator *)

rank_weights_of_search ==
    [skills |-> Rat(6, 10), experience |-> Rat(2, 10),
     title |-> RInt(0), location |-> Rat(2, 10)]

rank_weights_title_on_skills ==
    [skills |-> Rat(6, 10), experience |-> Rat(3, 10),
     title |-> RInt(0), location |-> Rat(1, 10)]

rank_weights ==
    [skills |-> Rat(4, 10), experience |-> Rat(3, 10),
     title |-> Rat(2, 10), location |-> Rat(1, 10)]

RankOneNormalized(candidate, job) ==
    LET doSkills == Truthy(job.jd_vector) /\ Truthy(candidate.resume_vector)
        skills_score ==
            IF doSkills
            THEN calculate_skills_match(candidate.resume_vector, job.jd_vector)
            ELSE RInt(0)
        doExperience == Truthy(job.required_experience)
                        /\ Truthy(candidate.total_experience)
        experience_score ==
            IF doExperience
            THEN rank_calculate_experience_match(candidate.total_experience,
                                                 job.required_experience)
            ELSE RInt(0)
        locRaises == LocationRaises(candidate)
        doLocation == ~locRaises /\ Truthy(job.location)
                      /\ Truthy(CandidateLocation(candidate))
        location_score ==
            IF doLocation
            THEN calculate_location_match(job.location, CandidateLocation(candidate))
            ELSE RInt(0)
    IN  [raises |-> locRaises,
         skills_score |-> skills_score,
         experience_score |-> experience_score,
         location_score |-> location_score,
         total_score |->
             LET sum == RAdd(RAdd(IF doSkills
                                  THEN RMul(skills_score, rank_weights.skills)
                                  ELSE RInt(0),
                                  IF doExperience
                                  THEN RMul(experience_score, rank_weights.experience)
                                  ELSE RInt(0)),
                             IF doLocation
                             THEN RMul(location_score, rank_weights.location)
                             ELSE RInt(0))
                 weight == RAdd(RAdd(IF doSkills THEN rank_weights.skills ELSE RInt(0),
                                     IF doExperience THEN rank_weights.experience
                                     ELSE RInt(0)),
                                IF doLocation THEN rank_weights.location ELSE RInt(0))
             IN  IF weight.n > 0 THEN RDiv(sum, weight) ELSE RInt(0)]

(* One pass of the loop body of rank_candidates_for_job *)
RankOne(candidate, job) ==
    LET doSkills == Truthy(job.jd_vector) /\ Truthy(candidate.resume_vector)
        skills_score ==
            IF doSkills
            THEN calculate_skills_match(candidate.resume_vector, job.jd_vector)
            ELSE RInt(0)
        doExperience == Truthy(job.required_experience)
                        /\ Truthy(candidate.total_experience)
        experience_score ==
            IF doExperience
            THEN rank_calculate_experience_match(candidate.total_experience,
                                                 job.required_experience)
            ELSE RInt(0)
        locRaises == LocationRaises(candidate)
        doLocation == ~locRaises /\ Truthy(job.location)
                      /\ Truthy(CandidateLocation(candidate))
        location_score ==
            IF doLocation
            THEN calculate_location_match(job.location, CandidateLocation(candidate))
            ELSE RInt(0)
    IN  [raises |-> locRaises,
         skills_score |-> skills_score,
         experience_score |-> experience_score,
         location_score |-> location_score,
         total_score |->
             RAdd(RAdd(IF doSkills THEN RMul(skills_score, rank_weights.skills)
                       ELSE RInt(0),
                       IF doExperience
                       THEN RMul(experience_score, rank_weights.experience)
                       ELSE RInt(0)),
                  IF doLocation THEN RMul(location_score, rank_weights.location)
                  ELSE RInt(0))]

(* ranked_results.append(...): the scanned candidates whose total clears the
   threshold, in scan order *)
RECURSIVE RankKept(_, _, _)
RankKept(scanned, i, min_score) ==
    IF i > Len(scanned) THEN <<>>
    ELSE IF RLe(min_score, scanned[i].total_score)
         THEN <<[candidate |-> i,
                 skills_score |-> scanned[i].skills_score,
                 experience_score |-> scanned[i].experience_score,
                 location_score |-> scanned[i].location_score,
                 total_score |-> scanned[i].total_score]>>
              \o RankKept(scanned, i + 1, min_score)
         ELSE RankKept(scanned, i + 1, min_score)

RankScanFirstJob(fetched, job_table, job_id) ==
    LET job == IF job_id \in 1..Len(job_table) THEN job_table[job_id]
               ELSE job_table[1]
        scanned == AsList([i \in 1..Len(fetched) |-> RankOne(fetched[i], job)])
        raisers == {i \in 1..Len(fetched) : scanned[i].raises}
    IN  IF raisers = {} THEN scanned
        ELSE SubSeq(scanned, 1, CHOOSE i \in raisers : \A j \in raisers : i <= j)

(* The job lookup and the loop of rank_candidates_for_job; job ids are
   positions in the job table *)
RankScan(fetched, job_table, job_id) ==
    IF job_id \notin 1..Len(job_table) THEN <<>>
    ELSE LET job == job_table[job_id]
             scanned == AsList([i \in 1..Len(fetched) |-> RankOne(fetched[i], job)])
             raisers == {i \in 1..Len(fetched) : scanned[i].raises}
         IN  IF raisers = {} THEN scanned
             ELSE SubSeq(scanned, 1, CHOOSE i \in raisers : \A j \in raisers : i <= j)

(* What RankHandler.rank_candidates_for_job returns after its loop: every
   exception is caught and answered with [] *)
RankReturn(scanned, min_score, limit) ==
    IF Raised(scanned) THEN <<>>
    ELSE Slice(SortedDesc(RankKept(scanned, 1, min_score)), limit)

RankOutcome(fetched, job_table, job_id, scanned) ==
    IF job_id \notin 1..Len(job_table) THEN "job not found"
    ELSE IF Len(fetched) = 0 THEN "no candidates"
    ELSE IF Raised(scanned) THEN "caught"
    ELSE "returned"

-----------------------------------------------------------------------------
(* Inputs *)

DefaultLimit == 10

U == <<10, 0, 0, 0>>

V == <<9, 3, 3, 1>>

W == <<5, 5, 5, 5>>

NegU == <<-10, 0, 0, 0>>

Z == <<0, 0, 0, 0>>

NoLocation == Dict("personal_info" :> EmptyDict)

Located(s) == Dict("personal_info" :> Dict("location" :> Str(s)))

(* The rows a resume upload can store: parsed profile, skills embedding,
   total experience *)
ProfileInputs ==
    << [parsed_resume |-> NoLocation, resume_vector |-> List(V),
        total_experience |-> None],
       [parsed_resume |-> Located(<<"a", ",", " ", "b">>), resume_vector |-> List(W),
        total_experience |-> Float(RInt(5))],
       [parsed_resume |-> NoLocation, resume_vector |-> List(V),
        total_experience |-> Float(RInt(5))],
       [parsed_resume |-> Located(<<>>), resume_vector |-> List(V),
        total_experience |-> Str(<<>>)],
       [parsed_resume |-> Located(<<"B">>), resume_vector |-> List(<<>>),
        total_experience |-> Float(RInt(0))],
       [parsed_resume |-> None, resume_vector |-> None,
        total_experience |-> Float(RInt(1))] >>

(* The job postings: requirements embedding, location, required experience *)
JobInputs ==
    << [jd_vector |-> List(V), location |-> None,
        required_experience |-> Float(RInt(5))],
       [jd_vector |-> List(U), location |-> Str(<<"A", ",", "b">>),
        required_experience |-> Float(RInt(1))],
       [jd_vector |-> List(NegU), location |-> Str(<<>>),
        required_experience |-> Float(RInt(0))] >>

SkillsInputs == << None, List(<<U>>), List(<<NegU, Z>>) >>

LocationInputs == << None, Str(<<"A", ",", "b">>), Str(<<"a", "b">>) >>

ExperienceInputs == << None, Float(RInt(0)), Float(RInt(1)), Float(RInt(5)) >>

MinScoreInputs == << RInt(-1), RInt(0), Rat(1, 2), Rat(9, 10) >>

LimitInputs == {-1, 0, 1, DefaultLimit}

-----------------------------------------------------------------------------
(* The state machine *)

IdleCall ==
    [op |-> "none", skills_vectors |-> None, location |-> None,
     required_experience |-> None, job_id |-> 0,
     min_score |-> RInt(0), limit |-> 0]

(* job_crud.create_job *)
create_job(table, j) ==
    Append(table, [id |-> Len(table) + 1, jd_vector |-> j.jd_vector,
                   location |-> j.location,
                   required_experience |-> j.required_experience])

(* The recruiters' postings are in place; no profile is stored yet *)
Init ==
    /\ candidates = <<>>
    /\ jobs = create_job(create_job(create_job(<<>>, JobInputs[1]), JobInputs[2]),
                         JobInputs[3])
    /\ raw_resumes = {}
    /\ call = IdleCall
    /\ scan = <<>>
    /\ results = <<>>
    /\ outcome = "idle"

(* candidate_crud.create_candidate_profile: the user's row is updated if it
   exists and inserted otherwise *)
create_candidate_profile(table, user_id, p) ==
    IF \E i \in 1..Len(table) : table[i].user_id = user_id
    THEN AsList([i \in 1..Len(table) |->
             IF table[i].user_id = user_id
             THEN [table[i] EXCEPT !.parsed_resume = p.parsed_resume,
                                   !.resume_vector = p.resume_vector,
                                   !.total_experience = p.total_experience]
             ELSE table[i]])
    ELSE Append(table, [id |-> Len(table) + 1, user_id |-> user_id,
                        parsed_resume |-> p.parsed_resume,
                        resume_vector |-> p.resume_vector,
                        total_experience |-> p.total_experience])

CreateCandidateProfile ==
    /\ call.op = "none"
    /\ \E user_id \in 1..Min(Len(candidates) + 1, MaxCandidates) :
       \E k \in DOMAIN ProfileInputs :
           candidates' = create_candidate_profile(candidates, user_id, ProfileInputs[k])
    /\ UNCHANGED <<jobs, raw_resumes, call, scan, results, outcome>>

SearchCandidatesStoringScores ==
    /\ call.op = "none"
    /\ Len(candidates) > 0
    /\ \E a \in {[IdleCall EXCEPT !.op = "search", !.skills_vectors = SkillsInputs[2],
                                  !.limit = DefaultLimit]} :
       \E scanned \in {SearchScan(candidates, a)} :
          /\ call' = a
          /\ scan' = scanned
          /\ results' = SearchReturn(scanned, a.min_score, a.limit)
          /\ outcome' = IF Raised(scanned) THEN "raised" ELSE "returned"
          /\ candidates' = AsList([i \in 1..Len(candidates) |->
                 [candidates[i] EXCEPT
                     !.total_experience = Float(scanned[i].total_score)]])
    /\ UNCHANGED <<jobs, raw_resumes>>

(* GET /search answered by SearchHandler.search_candidates *)
SearchCandidates ==
    /\ call.op = "none"
    /\ \E s \in DOMAIN SkillsInputs, l \in DOMAIN LocationInputs,
          e \in DOMAIN ExperienceInputs :
       \E a \in {[op |-> "search", skills_vectors |-> SkillsInputs[s],
                  location |-> LocationInputs[l],
                  required_experience |-> ExperienceInputs[e], job_id |-> 0]} :
       \E scanned \in {SearchScan(candidates, a)} :
       \E m \in DOMAIN MinScoreInputs, limit \in LimitInputs :
          /\ call' = [op |-> a.op, skills_vectors |-> a.skills_vectors,
                      location |-> a.location,
                      required_experience |-> a.required_experience,
                      job_id |-> a.job_id,
                      min_score |-> MinScoreInputs[m], limit |-> limit]
          /\ scan' = scanned
          /\ results' = SearchReturn(scanned, MinScoreInputs[m], limit)
          /\ outcome' = IF Raised(scanned) THEN "raised" ELSE "returned"
    /\ UNCHANGED <<candidates, jobs, raw_resumes>>

(* GET /rank_candidates answered by RankHandler.rank_candidates_for_job *)
RankCandidatesForJob ==
    /\ call.op = "none"
    /\ \E job_id \in 1..(Len(jobs) + 1) :
       \E scanned \in {RankScan(candidates, jobs, job_id)} :
       \E m \in DOMAIN MinScoreInputs, limit \in LimitInputs :
          /\ call' = [op |-> "rank", skills_vectors |-> None, location |-> None,
                      required_experience |-> None, job_id |-> job_id,
                      min_score |-> MinScoreInputs[m], limit |-> limit]
          /\ scan' = scanned
          /\ results' = RankReturn(scanned, MinScoreInputs[m], limit)
          /\ outcome' = RankOutcome(candidates, jobs, job_id, scanned)
    /\ UNCHANGED <<candidates, jobs, raw_resumes>>

(* The answer is handed to the caller; the engine keeps nothing of the call *)
Respond ==
    /\ call.op # "none"
    /\ call' = IdleCall
    /\ scan' = <<>>
    /\ results' = <<>>
    /\ outcome' = "idle"
    /\ UNCHANGED <<candidates, jobs, raw_resumes>>

Next ==
    \/ CreateCandidateProfile
    \/ SearchCandidates
    \/ RankCandidatesForJob
    \/ Respond

Spec == Init /\ [][Next]_vars

-----------------------------------------------------------------------------
(* The similarity toolkit on its own: one call of one toolkit function, on
   inputs drawn from bounded sets.  call holds the function and its two
   arguments, results what it returned. *)

MaxHalfYears == 10

(* The values an experience argument can have: None, the empty string, or a
   number of years, here the multiples of one half up to MaxHalfYears / 2,
   which binary floating point represents and subtracts exactly *)
ExperienceValue(k) ==
    IF k = 0 THEN None
    ELSE IF k = 1 THEN Str(<<>>)
    ELSE Float(Rat(k - 2, 2))

ExperienceIndices == 0..(MaxHalfYears + 2)

ToolkitCall(op, x, y) == [op |-> op, x |-> x, y |-> y]

ExperienceCalls(c) ==
    \E op \in {"SearchHandler.calculate_experience_match",
               "RankHandler.calculate_experience_match"} :
    \E i \in ExperienceIndices, j \in ExperienceIndices :
        c = ToolkitCall(op, ExperienceValue(i), ExperienceValue(j))

MaxLocationLen == 3

LocationAlphabet == {"a", "B", ",", " "}

Austin == <<"A", "u", "s", "t", "i", "n">>

Austn == <<"A", "u", "s", "t", "n">>

(* The location strings: every string over the alphabet up to MaxLocationLen
   characters, and two place names *)
LocationStrings ==
    UNION {[1..k -> LocationAlphabet] : k \in 0..MaxLocationLen} \cup {Austin, Austn}

LocationCalls(c) ==
    \/ \E q \in LocationStrings, l \in LocationStrings :
          c = ToolkitCall("calculate_location_match", Str(AsList(q)), Str(AsList(l)))
    \/ \E l \in LocationStrings :
          \/ c = ToolkitCall("calculate_location_match", None, Str(AsList(l)))
          \/ c = ToolkitCall("calculate_location_match", Str(AsList(l)), None)

MaxComponent == 2

(* Embeddings of one dimension: the vectors with two small integer
   components, the vectors of the job and profile inputs, and one with three
   equal components *)
SkillVectors ==
    {<<a, b, 0, 0>> : a \in (-1)..MaxComponent, b \in (-1)..MaxComponent}
        \cup {U, V, W, NegU, <<1, 1, 1, 0>>}

(* The query lists: empty, one vector, or a vector followed by the zero vector
   or by the vector opposite to U *)
QueryLists ==
    {<<>>} \cup {<<q>> : q \in SkillVectors}
           \cup {<<q, r>> : q \in SkillVectors, r \in {Z, NegU}}

CandidateVectors == {<<>>, Z, U, V, W, <<1, 1, 0, 0>>, <<1, 1, 1, 0>>}

SkillsMatchCalls(c) ==
    \/ \E a \in SkillVectors \cup {<<>>}, b \in SkillVectors \cup {<<>>} :
          c = ToolkitCall("calculate_skills_match", List(a), List(b))
    \/ \E a \in SkillVectors :
          \/ c = ToolkitCall("calculate_skills_match", None, List(a))
          \/ c = ToolkitCall("calculate_skills_match", List(a), None)

SkillsSimilarityCalls(c) ==
    \/ \E q \in QueryLists, a \in CandidateVectors :
          c = ToolkitCall("calculate_skills_similarity", List(q), List(a))
    \/ \E q \in QueryLists :
          c = ToolkitCall("calculate_skills_similarity", List(q), None)
    \/ \E a \in CandidateVectors :
          c = ToolkitCall("calculate_skills_similarity", None, List(a))

MaxResults == 3

(* Total scores a search result can carry *)
ScoreInputs ==
    {Rat(1, 10), Rat(1, 2), Rat(11, 20), Rat(3, 5), Rat(4, 5), Rat(19, 20)}

(* The result sets the summary is asked for: what search_candidates returns,
   at most MaxResults entries in descending order of total score *)
ResultSets ==
    {r \in UNION {[1..k -> ScoreInputs] : k \in 0..MaxResults} :
        \A i \in 1..(Len(r) - 1) : RLe(r[i + 1], r[i])}

SummaryCalls(c) ==
    \E r \in ResultSets :
        c = ToolkitCall("get_search_summary",
                        List(AsList([i \in 1..Len(r) |->
                                        [total_score |-> F64OfRat(r[i])]])),
                        None)

ToolkitInit ==
    /\ candidates = <<>>
    /\ jobs = <<>>
    /\ raw_resumes = {}
    /\ scan = <<>>
    /\ results = <<>>
    /\ outcome = "idle"
    /\ \/ ExperienceCalls(call)
       \/ LocationCalls(call)
       \/ SkillsMatchCalls(call)
       \/ SkillsSimilarityCalls(call)
       \/ SummaryCalls(call)

SearchCalculateExperienceMatch ==
    /\ outcome = "idle"
    /\ call.op = "SearchHandler.calculate_experience_match"
    /\ results' = search_calculate_experience_match(call.x, call.y)
    /\ outcome' = "returned"
    /\ UNCHANGED <<candidates, jobs, raw_resumes, call, scan>>

RankCalculateExperienceMatch ==
    /\ outcome = "idle"
    /\ call.op = "RankHandler.calculate_experience_match"
    /\ results' = rank_calculate_experience_match(call.x, call.y)
    /\ outcome' = "returned"
    /\ UNCHANGED <<candidates, jobs, raw_resumes, call, scan>>

CalculateLocationMatch ==
    /\ outcome = "idle"
    /\ call.op = "calculate_location_match"
    /\ results' = calculate_location_match(call.x, call.y)
    /\ outcome' = "returned"
    /\ UNCHANGED <<candidates, jobs, raw_resumes, call, scan>>

CalculateSkillsMatch ==
    /\ outcome = "idle"
    /\ call.op = "calculate_skills_match"
    /\ results' = calculate_skills_match_float64(call.x, call.y)
    /\ outcome' = "returned"
    /\ UNCHANGED <<candidates, jobs, raw_resumes, call, scan>>

CalculateSkillsSimilarity ==
    /\ outcome = "idle"
    /\ call.op = "calculate_skills_similarity"
    /\ results' = calculate_skills_similarity_float64(call.x, call.y)
    /\ outcome' = "returned"
    /\ UNCHANGED <<candidates, jobs, raw_resumes, call, scan>>

GetSearchSummary ==
    /\ outcome = "idle"
    /\ call.op = "get_search_summary"
    /\ results' = get_search_summary(call.x.v)
    /\ outcome' = "returned"
    /\ UNCHANGED <<candidates, jobs, raw_resumes, call, scan>>

ToolkitNext ==
    \/ SearchCalculateExperienceMatch
    \/ RankCalculateExperienceMatch
    \/ CalculateLocationMatch
    \/ CalculateSkillsMatch
    \/ CalculateSkillsSimilarity
    \/ GetSearchSummary

ToolkitSpec == ToolkitInit /\ [][ToolkitNext]_vars

-----------------------------------------------------------------------------
(* Vocabulary of the properties *)

-----------------------------------------------------------------------------
(* Resume upload: POST /upload_resume.  The raw text goes to the raw_resumes
   collection of the document store, the parsed profile to the
   candidate_profiles table, which keeps the document's id in mongodb_id.
   ObjectIds are numbered 1, 2, ... in the order of insertion. *)

MaxDocuments == 4

(* str(mongo_doc_id) and ObjectId(profile.mongodb_id) *)
ObjectIdStr(id) == Str(<<"ObjectId", id>>)

ObjectIdOf(s) == s.v[2]

SetMax(S) == CHOOSE m \in S : \A x \in S : x <= m

(* The ids the document store has handed out and that are still known *)
KnownObjectIds(table, collection) ==
    {d._id : d \in collection}
        \cup {ObjectIdOf(table[i].mongodb_id) :
                  i \in {j \in 1..Len(table) : Truthy(table[j].mongodb_id)}}

(* The id MongoDB gives to the next inserted document *)
FreshObjectId(table, collection) ==
    SetMax({0} \cup KnownObjectIds(table, collection)) + 1

(* MongoHandler.insert_one and MongoHandler.delete_one on a collection *)
insert_one(collection, document) == collection \cup {document}

delete_one(collection, id) == {d \in collection : d._id # id}

(* candidate_crud.get_candidate_profile: the positions of the user's row *)
get_candidate_profile(table, user_id) ==
    {i \in 1..Len(table) : table[i].user_id = user_id}

(* candidate_crud.create_candidate_profile with its mongodb_id argument *)
StoreProfile(table, user_id, p, mongodb_id) ==
    LET saved == create_candidate_profile(table, user_id, p)
    IN  AsList([i \in 1..Len(saved) |->
            IF saved[i].user_id = user_id
            THEN [id |-> saved[i].id, user_id |-> user_id,
                  parsed_resume |-> saved[i].parsed_resume,
                  resume_vector |-> saved[i].resume_vector,
                  total_experience |-> saved[i].total_experience,
                  mongodb_id |-> mongodb_id]
            ELSE saved[i]])

(* The steps of upload_resume that can fail, in the order they are taken *)
FailurePoints ==
    {"none", "extract_text", "insert_one", "parse_text", "embed_text",
     "create_candidate_profile"}

(* What a resume parses to: a non-empty profile with a float experience *)
UploadInputs == <<ProfileInputs[2]>>

(* The handler of POST /upload_resume, from the removal of the previous raw
   document to the saved profile; fails_at names the step that raises,
   delete_fails and cleanup_fails tell whether the two guarded deletions
   raise *)
upload_resume(table, collection, user_id, p, fails_at, delete_fails, cleanup_fails) ==
    LET existing == get_candidate_profile(table, user_id)
        old == IF existing = {} THEN 0
               ELSE LET row == table[CHOOSE i \in existing : TRUE]
                    IN  IF Truthy(row.mongodb_id) THEN ObjectIdOf(row.mongodb_id)
                        ELSE 0
        afterDelete == IF old # 0 /\ ~delete_fails THEN delete_one(collection, old)
                       ELSE collection
        mongo_doc_id == FreshObjectId(table, collection)
        inserted == insert_one(afterDelete,
                               [_id |-> mongo_doc_id, user_id |-> user_id])
        cleaned == IF cleanup_fails THEN inserted
                   ELSE delete_one(inserted, mongo_doc_id)
    IN  IF fails_at \in {"extract_text", "insert_one"}
        THEN [candidates |-> table, raw_resumes |-> afterDelete,
              status |-> 500, mongo_doc_id |-> 0]
        ELSE IF fails_at \in {"parse_text", "embed_text", "create_candidate_profile"}
        THEN [candidates |-> table, raw_resumes |-> cleaned,
              status |-> 500, mongo_doc_id |-> mongo_doc_id]
        ELSE [candidates |-> StoreProfile(table, user_id, p,
                                          ObjectIdStr(mongo_doc_id)),
              raw_resumes |-> inserted,
              status |-> 200, mongo_doc_id |-> mongo_doc_id]

UploadInit ==
    /\ candidates = <<>>
    /\ jobs = <<>>
    /\ raw_resumes = {}
    /\ call = IdleCall
    /\ scan = <<>>
    /\ results = <<>>
    /\ outcome = "idle"

(* One upload_resume request, from a user without a profile or with one *)
UploadResume ==
    /\ \E user_id \in 1..Min(Len(candidates) + 1, MaxCandidates) :
       \E k \in DOMAIN UploadInputs :
       \E fails_at \in FailurePoints :
       \E delete_fails \in IF get_candidate_profile(candidates, user_id) = {}
                             THEN {FALSE} ELSE BOOLEAN :
       \E cleanup_fails \in IF fails_at \in {"parse_text", "embed_text",
                                              "create_candidate_profile"}
                              THEN BOOLEAN ELSE {FALSE} :
       \E done \in {upload_resume(candidates, raw_resumes, user_id, UploadInputs[k],
                                  fails_at, delete_fails, cleanup_fails)} :
          /\ done.mongo_doc_id <= MaxDocuments
          /\ candidates' = done.candidates
          /\ raw_resumes' = done.raw_resumes
          /\ call' = [op |-> "upload_resume", user_id |-> user_id,
                      fails_at |-> fails_at]
          /\ results' = IF done.status = 200
                        THEN <<done.candidates[CHOOSE i \in
                                   get_candidate_profile(done.candidates, user_id) :
                                       TRUE]>>
                        ELSE <<>>
          /\ outcome' = IF done.status = 200 THEN "stored" ELSE "failed"
    /\ UNCHANGED <<jobs, scan>>

UploadNext == UploadResume

UploadSpec == UploadInit /\ [][UploadNext]_vars

-----------------------------------------------------------------------------
(* Concurrent requests.  Each request has its own database session: the rows
   its handler fetched are objects of that session, which no other request
   touches.  A handler is followed step by step: the fetch, one pass of the
   loop per fetched candidate, the return.  Profile uploads of other users
   commit in between.  call, scan, results and outcome are kept per request;
   scan[r] holds the fetched rows and the entries scored so far. *)

Requests == {"r1", "r2"}

(* The calls that are in flight together: request r1 searches and request r2
   ranks *)
RequestCall == [r \in Requests |-> IF r = "r1" THEN 1 ELSE 2]

ConcurrentCalls ==
    << [op |-> "search", skills_vectors |-> SkillsInputs[2],
        location |-> LocationInputs[2],
        required_experience |-> ExperienceInputs[4], job_id |-> 0,
        min_score |-> MinScoreInputs[2], limit |-> DefaultLimit],
       [op |-> "rank", skills_vectors |-> None, location |-> None,
        required_experience |-> None, job_id |-> 2,
        min_score |-> MinScoreInputs[2], limit |-> DefaultLimit] >>

(* The profiles uploaded while calls are in flight *)
ConcurrentProfiles == <<ProfileInputs[2], ProfileInputs[3]>>

ConcurrentInit ==
    /\ candidates = <<>>
    /\ jobs = create_job(create_job(create_job(<<>>, JobInputs[1]), JobInputs[2]),
                         JobInputs[3])
    /\ raw_resumes = {}
    /\ call = [r \in Requests |-> IdleCall]
    /\ scan = [r \in Requests |-> [fetched |-> <<>>, scanned |-> <<>>]]
    /\ results = [r \in Requests |-> <<>>]
    /\ outcome = [r \in Requests |-> "idle"]

(* A committed upload of another session *)
UpdateProfile ==
    /\ \E user_id \in 1..Min(Len(candidates) + 1, MaxCandidates) :
       \E k \in DOMAIN ConcurrentProfiles :
           candidates' = create_candidate_profile(candidates, user_id,
                                                  ConcurrentProfiles[k])
    /\ UNCHANGED <<jobs, raw_resumes, call, scan, results, outcome>>

(* candidates = db.query(CandidateProfile).all(): the rows are read into the
   session of the request *)
Fetch(r) ==
    /\ outcome[r] = "idle"
    /\ call' = [call EXCEPT ![r] = ConcurrentCalls[RequestCall[r]]]
    /\ scan' = [scan EXCEPT ![r] = [fetched |-> candidates, scanned |-> <<>>]]
    /\ outcome' = [outcome EXCEPT ![r] = "scanning"]
    /\ UNCHANGED <<candidates, jobs, raw_resumes, results>>

LiveCandidate(fetched, table, i) == table[i]

(* for candidate in candidates: the loop walks the fetched list *)
FetchedCandidate(fetched, table, i) == fetched[i]

(* One pass of the loop of the request's handler *)
ScoreCandidate(r) ==
    /\ outcome[r] = "scanning"
    /\ Len(scan[r].scanned) < Len(scan[r].fetched)
    /\ ~Raised(scan[r].scanned)
    /\ LET candidate == FetchedCandidate(scan[r].fetched, candidates,
                                         Len(scan[r].scanned) + 1)
           one == IF call[r].op = "search" THEN SearchOne(candidate, call[r])
                  ELSE RankOne(candidate, jobs[call[r].job_id])
       IN  scan' = [scan EXCEPT ![r].scanned = Append(@, one)]
    /\ UNCHANGED <<candidates, jobs, raw_resumes, call, results, outcome>>

(* The loop is over, or an exception left it: the handler returns *)
Return(r) ==
    /\ outcome[r] = "scanning"
    /\ Len(scan[r].scanned) = Len(scan[r].fetched) \/ Raised(scan[r].scanned)
    /\ results' = [results EXCEPT ![r] =
           IF call[r].op = "search"
           THEN SearchReturn(scan[r].scanned, call[r].min_score, call[r].limit)
           ELSE RankReturn(scan[r].scanned, call[r].min_score, call[r].limit)]
    /\ outcome' = [outcome EXCEPT ![r] =
           IF call[r].op = "search"
           THEN IF Raised(scan[r].scanned) THEN "raised" ELSE "returned"
           ELSE RankOutcome(scan[r].fetched, jobs, call[r].job_id, scan[r].scanned)]
    /\ UNCHANGED <<candidates, jobs, raw_resumes, call, scan>>

(* The answer is sent and the session of the request is dropped *)
Release(r) ==
    /\ outcome[r] \notin {"idle", "scanning"}
    /\ call' = [call EXCEPT ![r] = IdleCall]
    /\ scan' = [scan EXCEPT ![r] = [fetched |-> <<>>, scanned |-> <<>>]]
    /\ results' = [results EXCEPT ![r] = <<>>]
    /\ outcome' = [outcome EXCEPT ![r] = "idle"]
    /\ UNCHANGED <<candidates, jobs, raw_resumes>>

ConcurrentNext ==
    \/ UpdateProfile
    \/ \E r \in Requests : Fetch(r)
    \/ \E r \in Requests : ScoreCandidate(r)
    \/ \E r \in Requests : Return(r)
    \/ \E r \in Requests : Release(r)

ConcurrentSpec == ConcurrentInit /\ [][ConcurrentNext]_vars

SearchReturned == call.op = "search" /\ outcome = "returned"

RankReturned == call.op = "rank" /\ outcome = "returned"

Evaluated == call.op \in {"search", "rank"}

InUnitInterval(r) == RLe(RInt(0), r) /\ RLe(r, RInt(1))

(* The candidate has no usable datum for the criterion *)
LacksSkillsData(c) == ~Truthy(c.resume_vector)

LacksLocationData(c) == ~LocationRaises(c) /\ ~Truthy(CandidateLocation(c))

HasLocationData(c) == ~LocationRaises(c) /\ Truthy(CandidateLocation(c))

LacksExperienceData(c) == c.total_experience.t # "float"

(* None, "" and [] as tested by the ranking loop *)
RankMissing(x) == x.t = "None" \/ (x.t \in {"str", "list"} /\ Len(x.v) = 0)

SameAccumulation(x, y) ==
    /\ x.weighted_sum = y.weighted_sum
    /\ x.total_weight = y.total_weight
    /\ x.applied = y.applied
    /\ x.total_score = y.total_score

(* The criteria a scanned search entry was scored on, read off its sub-scores *)
AppliedSum(e) ==
    RAdd(RAdd(IF IsNone(e.skills_score) THEN RInt(0)
              ELSE RMul(e.skills_score.v, Rat(6, 10)),
              IF IsNone(e.location_score) THEN RInt(0)
              ELSE RMul(e.location_score.v, Rat(2, 10))),
         IF IsNone(e.experience_score) THEN RInt(0)
         ELSE RMul(e.experience_score.v, Rat(2, 10)))

AppliedWeight(e) ==
    RAdd(RAdd(IF IsNone(e.skills_score) THEN RInt(0) ELSE Rat(6, 10),
              IF IsNone(e.location_score) THEN RInt(0) ELSE Rat(2, 10)),
         IF IsNone(e.experience_score) THEN RInt(0) ELSE Rat(2, 10))

ReturnedCandidates == {results[k].candidate : k \in 1..Len(results)}

-----------------------------------------------------------------------------
(* C1: in search_candidates, a supplied criterion for which the candidate has
   no data (absent or empty skills vector, absent location, absent or empty
   total experience) adds neither a score term nor its weight: the candidate
   is scored exactly as if the criterion had not been supplied.
   The code adds the experience weight, with a score of 0, for a candidate
   whose total experience is None. *)
C1_MissingDataSkipsCriterion ==
    SearchReturned =>
        \A i \in 1..Len(scan) :
            /\ (Truthy(call.skills_vectors) /\ LacksSkillsData(candidates[i]))
                   => SameAccumulation(scan[i],
                          SearchOne(candidates[i], [call EXCEPT !.skills_vectors = None]))
            /\ (Truthy(call.location) /\ LacksLocationData(candidates[i]))
                   => SameAccumulation(scan[i],
                          SearchOne(candidates[i], [call EXCEPT !.location = None]))
            /\ (~IsNone(call.required_experience) /\ LacksExperienceData(candidates[i]))
                   => SameAccumulation(scan[i],
                          SearchOne(candidates[i],
                                    [call EXCEPT !.required_experience = None]))

(* The failing case of C1: skills cosine 9/10, total experience None, five
   years required; the total is (0.9 * 0.6 + 0 * 0.2) / 0.8 = 27/40 *)
C1_FailingCase ==
    /\ SearchReturned
    /\ \E i \in 1..Len(scan) :
          /\ IsNone(candidates[i].total_experience)
          /\ ~IsNone(scan[i].skills_score) /\ scan[i].skills_score.v = Rat(9, 10)
          /\ IsNone(scan[i].location_score)
          /\ ~IsNone(scan[i].experience_score)
          /\ scan[i].total_weight = Rat(8, 10)
          /\ scan[i].total_score = Rat(27, 40)

(* C2: in search_candidates, the applied weight of every candidate is the sum
   of the default weights (skills 0.6, location 0.2, experience 0.2) over the
   criteria that were supplied and for which the candidate has data, where a
   required experience of 0 years counts as supplied and a total experience
   of 0 years counts as present.
   The code drops the experience criterion when 0 years are required. *)
C2_AppliedWeight ==
    SearchReturned =>
        \A i \in 1..Len(scan) :
            scan[i].total_weight =
                RAdd(RAdd(IF Truthy(call.skills_vectors)
                             /\ ~LacksSkillsData(candidates[i])
                          THEN Rat(6, 10) ELSE RInt(0),
                          IF Truthy(call.location) /\ HasLocationData(candidates[i])
                          THEN Rat(2, 10) ELSE RInt(0)),
                     IF ~IsNone(call.required_experience)
                        /\ ~LacksExperienceData(candidates[i])
                     THEN Rat(2, 10) ELSE RInt(0))

(* The failing case of C2: 0 years required, a candidate with 5 years and a
   skills vector; the applied weight is 0.6 and not 0.8 *)
C2_FailingCase ==
    /\ SearchReturned
    /\ call.required_experience.t = "float" /\ call.required_experience.v = RInt(0)
    /\ \E i \in 1..Len(scan) :
          /\ candidates[i].total_experience.t = "float"
          /\ candidates[i].total_experience.v = RInt(5)
          /\ ~IsNone(scan[i].skills_score)
          /\ IsNone(scan[i].experience_score)
          /\ scan[i].total_weight = Rat(6, 10)

(* C3: in search_candidates, the total score of every returned candidate is
   the sum of sub_score * weight over the applied criteria divided by the sum
   of the weights of the applied criteria, and a candidate whose applied
   weight is zero is never returned, whatever min_score is (also <= 0). *)
C3_NormalizedTotal ==
    SearchReturned =>
        /\ \A k \in 1..Len(results) :
              LET e == scan[results[k].candidate]
              IN  /\ AppliedWeight(e).n > 0
                  /\ results[k].total_score = RDiv(AppliedSum(e), AppliedWeight(e))
        /\ \A i \in 1..Len(scan) :
              AppliedWeight(scan[i]).n = 0 => i \notin ReturnedCandidates

C3_Witness ==
    /\ SearchReturned
    /\ RLe(call.min_score, RInt(0))
    /\ \E i \in 1..Len(scan) : AppliedWeight(scan[i]).n = 0
    /\ \E k \in 1..Len(results) :
          /\ RLt(AppliedWeight(scan[results[k].candidate]), RInt(1))
          /\ results[k].total_score # AppliedSum(scan[results[k].candidate])

(* C4: for search_candidates and rank_candidates_for_job, every returned entry
   has a total score >= min_score and the returned sequence is in
   non-increasing order of total score. *)
C4_ThresholdAndOrder ==
    Evaluated =>
        /\ \A k \in 1..Len(results) : RLe(call.min_score, results[k].total_score)
        /\ \A k \in 1..(Len(results) - 1) :
              RLe(results[k + 1].total_score, results[k].total_score)

C4_Witness ==
    /\ RankReturned
    /\ Len(results) = 2
    /\ results[1].candidate = 2 /\ results[2].candidate = 1
    /\ RLt(results[2].total_score, results[1].total_score)
    /\ RLt(RInt(0), call.min_score)

(* C5: for search_candidates and rank_candidates_for_job and every requested
   limit, the number of returned entries never exceeds the limit (a limit
   below zero allowing no entry at all), and no candidate that cleared the
   threshold but was left out has a total score strictly higher than a
   returned candidate.
   The code answers a negative limit with all but the last -limit entries. *)
C5_SizeAndTruncation ==
    (Evaluated /\ outcome = "returned") =>
        /\ Len(results) <= Max(call.limit, 0)
        /\ \A i \in 1..Len(scan) :
              (/\ i \notin ReturnedCandidates
               /\ RLe(call.min_score, scan[i].total_score)
               /\ (call.op = "search" => scan[i].applied))
                  => \A k \in 1..Len(results) :
                        ~RLt(results[k].total_score, scan[i].total_score)

(* The failing case of C5: limit -1, two candidates clear the threshold, one
   entry is returned *)
C5_FailingCase ==
    /\ SearchReturned
    /\ call.limit = -1
    /\ Len(results) = 1
    /\ \A i \in 1..Len(scan) :
          scan[i].applied /\ RLe(call.min_score, scan[i].total_score)

(* C6: in every result of search_candidates the skills, location and
   experience sub-scores and the total score each lie in [0, 1], also when a
   query vector and the candidate vector have a negative cosine.
   The code does not clamp the best-of-batch cosine. *)
C6_SearchScoresInUnitInterval ==
    SearchReturned =>
        \A k \in 1..Len(results) :
            /\ InUnitInterval(results[k].skills_score)
            /\ InUnitInterval(results[k].location_score)
            /\ InUnitInterval(results[k].experience_score)
            /\ InUnitInterval(results[k].total_score)

(* The failing case of C6: the only query vector is opposite to the skills
   of a candidate whose location and experience match; min_score 0 *)
C6_FailingCase ==
    /\ SearchReturned
    /\ call.min_score = RInt(0)
    /\ \E k \in 1..Len(results) :
          /\ results[k].skills_score = Rat(-1, 2)
          /\ results[k].location_score = RInt(1)
          /\ results[k].experience_score = RInt(1)
          /\ results[k].total_score = Rat(1, 10)

(* C7: in rank_candidates_for_job, the total score of every candidate is
   0.4 * skills_score + 0.3 * experience_score + 0.1 * location_score of the
   sub-scores reported with it, a criterion whose job or candidate datum is
   missing has the sub-score 0, and the total is never divided by the applied
   weight. *)
C7_RankTotalIsWeightedSum ==
    RankReturned =>
        /\ \A k \in 1..Len(results) :
              results[k].total_score =
                  RAdd(RAdd(RMul(Rat(4, 10), results[k].skills_score),
                            RMul(Rat(3, 10), results[k].experience_score)),
                       RMul(Rat(1, 10), results[k].location_score))
        /\ \A i \in 1..Len(scan) :
              LET job == jobs[call.job_id]
                  c == candidates[i]
              IN  /\ scan[i].total_score =
                         RAdd(RAdd(RMul(Rat(4, 10), scan[i].skills_score),
                                   RMul(Rat(3, 10), scan[i].experience_score)),
                              RMul(Rat(1, 10), scan[i].location_score))
                  /\ (RankMissing(job.jd_vector) \/ RankMissing(c.resume_vector))
                         => scan[i].skills_score = RInt(0)
                  /\ (RankMissing(job.required_experience)
                      \/ RankMissing(c.total_experience))
                         => scan[i].experience_score = RInt(0)
                  /\ (RankMissing(job.location) \/ LacksLocationData(c))
                         => scan[i].location_score = RInt(0)

C7_Witness ==
    /\ RankReturned
    /\ \E k \in 1..Len(results) :
          /\ results[k].skills_score.n > 0
          /\ results[k].experience_score.n > 0
          /\ results[k].location_score.n > 0
          /\ RLt(results[k].total_score, RInt(1))
    /\ \E k \in 1..Len(results) :
          /\ results[k].skills_score.n > 0
          /\ RankMissing(candidates[results[k].candidate].total_experience)
          /\ results[k].total_score = RMul(Rat(4, 10), results[k].skills_score)

(* C8: in rank_candidates_for_job, whenever the job requires a non-zero
   experience and the candidate's total experience is present (any
   non-negative number of years, 0 included), the reported experience
   sub-score is the experience-gap score of the candidate's years against the
   required years (0 years against 1 year gives 0.9).
   The code reports 0 for a candidate with 0 years. *)
C8_RankExperienceScore ==
    RankReturned =>
        \A k \in 1..Len(results) :
            LET job == jobs[call.job_id]
                c == candidates[results[k].candidate]
            IN  (/\ job.required_experience.t = "float"
                 /\ job.required_experience.v.n # 0
                 /\ c.total_experience.t = "float"
                 /\ c.total_experience.v.n >= 0)
                    => results[k].experience_score =
                           rank_calculate_experience_match(c.total_experience,
                                                           job.required_experience)

(* The failing case of C8: the job requires 1 year, the candidate has 0 *)
C8_FailingCase ==
    /\ RankReturned
    /\ jobs[call.job_id].required_experience.t = "float"
    /\ jobs[call.job_id].required_experience.v = RInt(1)
    /\ \E k \in 1..Len(results) :
          /\ candidates[results[k].candidate].total_experience.t = "float"
          /\ candidates[results[k].candidate].total_experience.v = RInt(0)
          /\ results[k].experience_score = RInt(0)
          /\ rank_calculate_experience_match(
                 candidates[results[k].candidate].total_experience,
                 jobs[call.job_id].required_experience) = Rat(9, 10)

(* The search of the example: every criterion supplied, default threshold *)
C9_AllSupplied ==
    /\ SearchReturned
    /\ Truthy(call.skills_vectors) /\ Truthy(call.location)
    /\ Truthy(call.required_experience)
    /\ call.min_score = Rat(1, 2)
    /\ call.limit = DefaultLimit

C9_First(c) ==
    /\ ~LacksSkillsData(c)
    /\ calculate_skills_similarity(call.skills_vectors, c.resume_vector) = Rat(9, 10)
    /\ LacksLocationData(c)
    /\ LacksExperienceData(c)

C9_Second(c) ==
    /\ ~LacksSkillsData(c)
    /\ calculate_skills_similarity(call.skills_vectors, c.resume_vector) = Rat(1, 2)
    /\ HasLocationData(c)
    /\ calculate_location_match(call.location, CandidateLocation(c)) = RInt(1)
    /\ c.total_experience.t = "float"
    /\ c.total_experience.v = call.required_experience.v

(* C9: search with the default weights, all three criteria supplied and
   min_score 0.5: a candidate with skills cosine 0.9 and neither location nor
   experience data has the total 0.9, a candidate with skills cosine 0.5, an
   exact location match and an exact experience match has the total 0.7, and
   the two are returned in this order.
   For a first candidate whose total experience is None the code computes
   27/40 and returns the second candidate first. *)
C9_SearchExample ==
    C9_AllSupplied =>
        /\ \A i \in 1..Len(scan) :
              /\ C9_First(candidates[i]) => scan[i].total_score = Rat(9, 10)
              /\ C9_Second(candidates[i]) => scan[i].total_score = Rat(7, 10)
        /\ \A i, j \in 1..Len(scan) :
              (/\ Len(scan) = 2
               /\ C9_First(candidates[i])
               /\ C9_Second(candidates[j]))
                  => /\ Len(results) = 2
                     /\ results[1].candidate = i
                     /\ results[2].candidate = j

(* The failing case of C9: the first candidate's total experience is None *)
C9_FailingCase ==
    /\ C9_AllSupplied
    /\ Len(scan) = 2
    /\ C9_First(candidates[1])
    /\ IsNone(candidates[1].total_experience)
    /\ C9_Second(candidates[2])
    /\ scan[1].total_score = Rat(27, 40)
    /\ scan[2].total_score = Rat(7, 10)
    /\ Len(results) = 2
    /\ results[1].candidate = 2
    /\ results[2].candidate = 1

(* The case of C9 in which the first candidate's total experience is the
   empty string: the totals and the order are those of the example *)
C9_EmptyStringCase ==
    /\ C9_AllSupplied
    /\ Len(scan) = 2
    /\ C9_First(candidates[1])
    /\ candidates[1].total_experience.t = "str"
    /\ C9_Second(candidates[2])
    /\ scan[1].total_score = Rat(9, 10)
    /\ scan[2].total_score = Rat(7, 10)
    /\ Len(results) = 2
    /\ results[1].candidate = 1
    /\ results[2].candidate = 2

(* The ranking of the example: a job requiring 5 years *)
C10_Job ==
    /\ RankReturned
    /\ jobs[call.job_id].required_experience.t = "float"
    /\ jobs[call.job_id].required_experience.v = RInt(5)

C10_Cosine1(c) ==
    /\ ~LacksSkillsData(c)
    /\ Truthy(jobs[call.job_id].jd_vector)
    /\ Cosine(c.resume_vector.v, jobs[call.job_id].jd_vector.v) = RInt(1)
    /\ LacksLocationData(c)

C10_A(c) ==
    /\ C10_Cosine1(c)
    /\ c.total_experience.t = "float"
    /\ c.total_experience.v = RInt(5)

C10_B(c) == C10_Cosine1(c) /\ LacksExperienceData(c)

(* C10: ranking with the default weights against a job requiring 5 years:
   a candidate with 5 years, skills cosine 1.0 and no location has the total
   0.7, a candidate with no experience data, skills cosine 1.0 and no
   location has the total 0.4, and with min_score 0.5 exactly the first of
   the two is returned. *)
C10_RankExample ==
    C10_Job =>
        /\ \A i \in 1..Len(scan) :
              /\ C10_A(candidates[i]) => scan[i].total_score = Rat(7, 10)
              /\ C10_B(candidates[i]) => scan[i].total_score = Rat(4, 10)
        /\ \A i, j \in 1..Len(scan) :
              (/\ Len(scan) = 2
               /\ C10_A(candidates[i])
               /\ C10_B(candidates[j])
               /\ call.min_score = Rat(1, 2)
               /\ call.limit >= 1)
                  => /\ Len(results) = 1
                     /\ results[1].candidate = i
                     /\ results[1].total_score = Rat(7, 10)

C10_Witness ==
    /\ C10_Job
    /\ Len(scan) = 2
    /\ C10_B(candidates[1])
    /\ C10_A(candidates[2])
    /\ call.min_score = Rat(1, 2)
    /\ call.limit = DefaultLimit
    /\ Len(results) = 1
    /\ results[1].candidate = 2
    /\ scan[1].total_score = Rat(4, 10)

-----------------------------------------------------------------------------
(* Vocabulary of the toolkit properties *)

ExperienceReturned ==
    /\ outcome = "returned"
    /\ call.op \in {"SearchHandler.calculate_experience_match",
                    "RankHandler.calculate_experience_match"}

BothYearsPresent == call.x.t = "float" /\ call.y.t = "float"

(* |x - y| of two present experience values *)
Gap(x, y) == RAbs(RSub(x.v, y.v))

(* C11: calculate_experience_match of either handler returns 0 if an input
   is absent, and otherwise the step function of d = |candidate - required|:
   d = 0 gives 1.0, 0 < d <= 1 gives 0.9, 1 < d <= 2 gives 0.7, 2 < d <= 3
   gives 0.5, 3 < d <= 4 gives 0.3 and d > 4 gives 0.1. *)
C11_ExperienceGapScore ==
    ExperienceReturned =>
        IF ~BothYearsPresent THEN results = RInt(0)
        ELSE LET d == Gap(call.x, call.y)
             IN  /\ REq(d, RInt(0)) => results = RInt(1)
                 /\ RLt(RInt(0), d) /\ RLe(d, RInt(1)) => results = Rat(9, 10)
                 /\ RLt(RInt(1), d) /\ RLe(d, RInt(2)) => results = Rat(7, 10)
                 /\ RLt(RInt(2), d) /\ RLe(d, RInt(3)) => results = Rat(5, 10)
                 /\ RLt(RInt(3), d) /\ RLe(d, RInt(4)) => results = Rat(3, 10)
                 /\ RLt(RInt(4), d) => results = Rat(1, 10)

(* A gap of exactly 4 years, the upper edge of its step, was scored 0.3 *)
C11_Witness ==
    /\ ExperienceReturned
    /\ call.op = "RankHandler.calculate_experience_match"
    /\ BothYearsPresent
    /\ call.x.v = Rat(1, 2)
    /\ call.y.v = Rat(9, 2)
    /\ results = Rat(3, 10)

(* C12: for present x and y, the score of (x, x) is 1.0, the score is never
   below 0.1, and a pair with a gap no larger than another pair's gap never
   scores lower than it. *)
C12_GapScoreMonotone ==
    ExperienceReturned /\ BothYearsPresent =>
        /\ call.x = call.y => results = RInt(1)
        /\ RLe(Rat(1, 10), results)
        /\ \A i \in 2..(MaxHalfYears + 2), j \in 2..(MaxHalfYears + 2) :
              LET other == search_calculate_experience_match(ExperienceValue(i),
                                                             ExperienceValue(j))
                  gap == Gap(ExperienceValue(i), ExperienceValue(j))
              IN  /\ RLe(Gap(call.x, call.y), gap) => RLe(other, results)
                  /\ RLe(gap, Gap(call.x, call.y)) => RLe(results, other)

(* Equal non-zero experience was scored 1.0 *)
C12_Witness ==
    /\ ExperienceReturned
    /\ call.op = "SearchHandler.calculate_experience_match"
    /\ BothYearsPresent
    /\ call.x.v = Rat(5, 2)
    /\ call.y.v = Rat(5, 2)
    /\ results = RInt(1)

LocationReturned == outcome = "returned" /\ call.op = "calculate_location_match"

NonEmptyString(x) == x.t = "str" /\ Len(x.v) > 0

(* The similarity of two segments as the location rule states it *)
C13_SegmentSimilarity(a, b) ==
    IF a = b THEN RInt(1)
    ELSE IF (\E i \in 0..(Len(b) - Len(a)) :
                \A k \in 1..Len(a) : b[i + k] = a[k])
            \/ (\E i \in 0..(Len(a) - Len(b)) :
                   \A k \in 1..Len(b) : a[i + k] = b[k])
         THEN Rat(9, 10)
    ELSE Rat(Cardinality({k \in DOMAIN a \cap DOMAIN b : a[k] = b[k]}),
             Max(Len(a), Len(b)))

(* The best similarity of one query segment over the candidate's segments *)
C13_Best(q, segments) ==
    CHOOSE r \in {C13_SegmentSimilarity(q, segments[k]) : k \in DOMAIN segments} :
        \A k \in DOMAIN segments : RLe(C13_SegmentSimilarity(q, segments[k]), r)

(* C13: for non-empty q and c, calculate_location_match(q, c) is the mean,
   over the comma-separated, trimmed, lowercased segments of q, of the best
   segment similarity over the segments of c; segment similarity is 1.0 on
   equality, 0.9 if one segment is a substring of the other, and otherwise
   the number of positions at which the segments, aligned from their first
   character, agree, divided by the length of the longer segment. *)
C13_LocationMatchIsMeanOfBest ==
    LocationReturned /\ NonEmptyString(call.x) /\ NonEmptyString(call.y) =>
        LET qs == Parts(call.x.v)
            cs == Parts(call.y.v)
        IN  RMul(results, RInt(Len(qs)))
                = SumOf(AsList([k \in 1..Len(qs) |-> C13_Best(qs[k], cs)]))

(* Two query segments against one candidate segment: "a" agrees with "bb" at
   no position and "b" is a substring of it, so the mean is 0.45 *)
C13_Witness ==
    /\ LocationReturned
    /\ NonEmptyString(call.x)
    /\ NonEmptyString(call.y)
    /\ call.x.v = <<"a", ",", "B">>
    /\ call.y.v = <<"B", "B">>
    /\ results = Rat(9, 20)

(* C14: calculate_location_match(s, s) = 1.0 for every non-empty s, it is 0
   as soon as one of the two strings is empty, and it is strictly between 0
   and 1 for "Austin" against "Austn". *)
C14_LocationMatchIdentities ==
    LocationReturned /\ call.x.t = "str" /\ call.y.t = "str" =>
        /\ Len(call.x.v) > 0 /\ call.x.v = call.y.v => results = RInt(1)
        /\ Len(call.x.v) = 0 \/ Len(call.y.v) = 0 => results = RInt(0)
        /\ call.x.v = Austin /\ call.y.v = Austn =>
               RLt(RInt(0), results) /\ RLt(results, RInt(1))

(* "Austin" against "Austn": four of six positions agree *)
C14_Witness ==
    /\ LocationReturned
    /\ call.x.t = "str"
    /\ call.y.t = "str"
    /\ call.x.v = Austin
    /\ call.y.v = Austn
    /\ results = Rat(2, 3)

SkillsMatchReturned == outcome = "returned" /\ call.op = "calculate_skills_match"

SkillsSimilarityReturned ==
    outcome = "returned" /\ call.op = "calculate_skills_similarity"

(* A vector that is present, not empty and not the zero vector *)
UsableVector(x) == x.t = "list" /\ Len(x.v) > 0 /\ Dot(x.v, x.v) # 0

IsSquare(n) == \E r \in 0..n : r * r = n

(* r is the cosine d / sqrt(aa * bb) of a positive dot product d up to four
   units in the last place of r:
   (m - 4)^2 * aa * bb <= d^2 * 2^(-2e) <= (m + 4)^2 * aa * bb *)
C15_WithinRounding(r, d, aa, bb) ==
    LET lo == BigSub(r.m, <<4>>, 0)
        hi == BigAdd(r.m, <<4>>, 0)
        norms == BigOfInt(aa * bb)
        dd == BigShl(BigOfInt(d * d), (-2) * r.e)
    IN  /\ r.sign = 1
        /\ r.e < 0
        /\ ~BigLess(dd, BigMul(BigMul(lo, lo), norms))
        /\ ~BigLess(BigMul(BigMul(hi, hi), norms), dd)

(* C15: RankHandler.calculate_skills_match returns 0 when a vector is absent,
   empty or of zero norm, and otherwise the cosine of the two vectors clamped
   into [0, 1]: never outside [0, 1], 0 for a negative cosine, the cosine up
   to floating-point rounding for a positive one, and the float nearest to
   the exact cosine when both norms are integers. *)
C15_SkillsMatchClamped ==
    SkillsMatchReturned =>
        IF ~UsableVector(call.x) \/ ~UsableVector(call.y) THEN results = F64Zero
        ELSE LET d == Dot(call.x.v, call.y.v)
                 aa == Dot(call.x.v, call.x.v)
                 bb == Dot(call.y.v, call.y.v)
             IN  /\ ~F64Less(results, F64Zero)
                 /\ ~F64Less(F64One, results)
                 /\ d <= 0 => results = F64Zero
                 /\ d > 0 => C15_WithinRounding(results, d, aa, bb)
                 /\ IsSquare(aa) /\ IsSquare(bb) =>
                        results = F64OfRat(RMax(RInt(0),
                                      RMin(RInt(1), Cosine(call.x.v, call.y.v))))

(* A negative cosine was clamped to 0 *)
C15_Witness ==
    /\ SkillsMatchReturned
    /\ UsableVector(call.x)
    /\ UsableVector(call.y)
    /\ call.x.v = W
    /\ call.y.v = NegU
    /\ results = F64Zero

(* C16: for every non-zero vector v the cosine of v with itself is 1.0, for
   calculate_skills_match(v, v) and for calculate_skills_similarity([v], v).
   In binary64 the product of the two rounded norms is not always the squared
   norm, and the quotient then differs from 1.0. *)
C16_SelfCosineIsOne ==
    /\ SkillsMatchReturned /\ UsableVector(call.x) /\ call.x = call.y
           => results = F64One
    /\ SkillsSimilarityReturned /\ UsableVector(call.y)
        /\ call.x.t = "list" /\ call.x.v = <<call.y.v>>
           => results = F64One

(* The failing case of C16: [1, 1, 0, 0] is matched against itself and scores
   0.9999999999999998 *)
C16_FailingCase ==
    /\ SkillsMatchReturned
    /\ UsableVector(call.x)
    /\ call.x.v = <<1, 1, 0, 0>>
    /\ call.y = call.x
    /\ F64Less(results, F64One)
    /\ results = [sign |-> 1, m |-> <<32766, 32767, 32767, 255>>, e |-> -53]

(* The best-of-batch similarity of [1, 1, 1, 0] with itself is
   1.0000000000000002 *)
C16_AboveOne ==
    /\ SkillsSimilarityReturned
    /\ UsableVector(call.y)
    /\ call.y.v = <<1, 1, 1, 0>>
    /\ call.x.t = "list"
    /\ call.x.v = <<call.y.v>>
    /\ F64Less(F64One, results)

(* The similarity one query vector contributes as C17 states it *)
C17_Contribution(q, cv) ==
    IF Dot(q, q) = 0 \/ Dot(cv, cv) = 0 THEN F64Zero ELSE Cosine64(q, cv)

C17_Best(qs, cv) ==
    CHOOSE r \in {C17_Contribution(qs[k], cv) : k \in DOMAIN qs} :
        \A k \in DOMAIN qs : ~F64Less(r, C17_Contribution(qs[k], cv))

(* C17: SearchHandler.calculate_skills_similarity returns 0 for an empty
   query list or an absent candidate vector, and otherwise the maximum over
   the query vectors of the unclamped cosine with the candidate vector, a
   query vector of zero norm (or a candidate of zero norm) contributing 0.
   The code leaves a zero-norm query vector out of the maximum instead. *)
C17_BestOfBatch ==
    SkillsSimilarityReturned =>
        IF ~Truthy(call.x) \/ ~Truthy(call.y) THEN results = F64Zero
        ELSE results = C17_Best(call.x.v, call.y.v)

(* The failing case of C17: the cosine with the first query vector is -0.5
   and the second query vector is the zero vector; -0.5 is returned *)
C17_FailingCase ==
    /\ SkillsSimilarityReturned
    /\ Truthy(call.x)
    /\ Truthy(call.y)
    /\ call.x.v = <<NegU, Z>>
    /\ call.y.v = W
    /\ results = F64OfRat(Rat(-1, 2))
    /\ C17_Best(call.x.v, call.y.v) = F64Zero

SummaryReturned == outcome = "returned" /\ call.op = "get_search_summary"

(* The totals of the result set the summary was asked for *)
SummaryTotals == AsList([i \in 1..Len(call.x.v) |-> call.x.v[i].total_score])

(* The exact sum of positive floats, as an integer x scaled by 2^e *)
RECURSIVE C18_ExactSum(_)
C18_ExactSum(totals) ==
    IF Len(totals) = 1 THEN [x |-> totals[1].m, e |-> totals[1].e]
    ELSE LET rest == C18_ExactSum(Tail(totals))
             e == Min(rest.e, totals[1].e)
         IN  [x |-> BigAdd(BigShl(rest.x, rest.e - e),
                           BigShl(totals[1].m, totals[1].e - e), 0),
              e |-> e]

(* avg is the exact mean of the positive totals up to four units in its last
   place: |avg * n - sum| <= 4 * n * 2^e *)
C18_MeanWithinRounding(avg, totals) ==
    LET n == Len(totals)
        exact == C18_ExactSum(totals)
        e == Min(avg.e, exact.e)
        scaled == BigMulLimb(BigShl(avg.m, avg.e - e), n, 0)
        sum == BigShl(exact.x, exact.e - e)
        slack == BigShl(BigOfInt(4 * n), avg.e - e)
    IN  /\ avg.sign = 1
        /\ ~BigLess(BigAdd(sum, slack, 0), scaled)
        /\ ~BigLess(BigAdd(scaled, slack, 0), sum)

(* C18: get_search_summary returns the number of results, the mean, maximum
   and minimum of their total scores, and a histogram counting totals >= 0.8
   as excellent, totals in [0.6, 0.8) as good and totals in [0.5, 0.6) as
   fair; for an empty result set every field is zero.  The mean is the one
   floating-point arithmetic gives: the exact mean up to rounding. *)
C18_SearchSummary ==
    SummaryReturned =>
        LET totals == SummaryTotals
            n == Len(totals)
        IN  /\ results.count = n
            /\ n = 0 => /\ results.avg_score = F64Zero
                         /\ results.max_score = F64Zero
                         /\ results.min_score = F64Zero
            /\ n > 0 => /\ C18_MeanWithinRounding(results.avg_score, totals)
                         /\ (\E i \in 1..n : results.max_score = totals[i])
                         /\ (\E j \in 1..n : results.min_score = totals[j])
                         /\ (\A k \in 1..n :
                                /\ ~F64Less(results.max_score, totals[k])
                                /\ ~F64Less(totals[k], results.min_score))
            /\ results.score_distribution.excellent
                   = Cardinality({i \in 1..n : ~F64Less(totals[i], F64OfRat(Rat(4, 5)))})
            /\ results.score_distribution.good
                   = Cardinality({i \in 1..n :
                                     /\ ~F64Less(totals[i], F64OfRat(Rat(3, 5)))
                                     /\ F64Less(totals[i], F64OfRat(Rat(4, 5)))})
            /\ results.score_distribution.fair
                   = Cardinality({i \in 1..n :
                                     /\ ~F64Less(totals[i], F64OfRat(Rat(1, 2)))
                                     /\ F64Less(totals[i], F64OfRat(Rat(3, 5)))})

(* Three results on the lower edges of the three classes were summarised *)
C18_Witness ==
    /\ SummaryReturned
    /\ SummaryTotals
           = <<F64OfRat(Rat(4, 5)), F64OfRat(Rat(3, 5)), F64OfRat(Rat(1, 2))>>
    /\ results.count = 3
    /\ F64Less(F64OfRat(Rat(3, 5)), results.avg_score)
    /\ F64Less(results.avg_score, F64OfRat(Rat(7, 10)))
    /\ results.score_distribution = [excellent |-> 1, good |-> 1, fair |-> 1]

(* C19: rank_candidates_for_job returns an empty result set, without raising,
   when the job identifier has no record and when the job exists but no
   candidate is stored. *)
C19_RankFailsGracefully ==
    call.op = "rank" =>
        /\ call.job_id \notin 1..Len(jobs) =>
               results = <<>> /\ outcome = "job not found"
        /\ call.job_id \in 1..Len(jobs) /\ Len(candidates) = 0 =>
               results = <<>> /\ outcome = "no candidates"

(* A job that has no record was ranked with no threshold while a candidate
   that would have been scored was stored *)
C19_Witness ==
    /\ call.op = "rank"
    /\ call.job_id \notin 1..Len(jobs)
    /\ RLt(call.min_score, RInt(0))
    /\ call.limit > 0
    /\ Len(candidates) > 0
    /\ \A i \in 1..Len(candidates) : ~LocationRaises(candidates[i])
    /\ results = <<>>
    /\ outcome = "job not found"

(* Scoring the candidate fails in the call in progress *)
C20_Fails(c) ==
    IF call.op = "search" THEN SearchOne(c, call).raises
    ELSE RankOne(c, jobs[call.job_id]).raises

(* The candidate is scored and clears the threshold of the call in progress *)
C20_Clears(c) ==
    IF call.op = "search"
    THEN LET one == SearchOne(c, call)
         IN  one.applied /\ RLe(call.min_score, one.total_score)
    ELSE RLe(call.min_score, RankOne(c, jobs[call.job_id]).total_score)

C20_Total(c) ==
    IF call.op = "search" THEN SearchOne(c, call).total_score
    ELSE RankOne(c, jobs[call.job_id]).total_score

(* The candidates that do not fail and clear the threshold, in scan order *)
RECURSIVE C20_Kept(_)
C20_Kept(i) ==
    IF i > Len(candidates) THEN <<>>
    ELSE IF ~C20_Fails(candidates[i]) /\ C20_Clears(candidates[i])
         THEN <<[candidate |-> i, total_score |-> C20_Total(candidates[i])]>>
              \o C20_Kept(i + 1)
         ELSE C20_Kept(i + 1)

(* C20: in search_candidates and rank_candidates_for_job, a candidate whose
   scoring fails (for example one whose parsed profile is absent) is the only
   one skipped: the call does not fail, and every other candidate is scored
   and returned according to the threshold, the sort and the limit.
   The code has no handler inside the loop: the failure ends the whole call. *)
C20_FailureSkipsOneCandidate ==
    (call.op = "search" \/ (call.op = "rank" /\ call.job_id \in 1..Len(jobs))) =>
        /\ outcome # "raised"
        /\ AsList([k \in 1..Len(results) |->
                      [candidate |-> results[k].candidate,
                       total_score |-> results[k].total_score]])
               = Slice(SortedDesc(C20_Kept(1)), call.limit)

(* The failing case of C20 in search: a location is asked for, one stored
   candidate has no parsed profile, another one clears the threshold, and the
   call raises *)
C20_FailingCase ==
    /\ call.op = "search"
    /\ call.limit > 0
    /\ outcome = "raised"
    /\ results = <<>>
    /\ \E i \in 1..Len(candidates) : C20_Fails(candidates[i])
    /\ \E i \in 1..Len(candidates) :
          ~C20_Fails(candidates[i]) /\ C20_Clears(candidates[i])

(* The failing case of C20 in ranking: the failure is caught outside the loop
   and the call returns no candidate at all *)
C20_RankFailingCase ==
    /\ call.op = "rank"
    /\ call.job_id \in 1..Len(jobs)
    /\ call.limit > 0
    /\ outcome = "caught"
    /\ results = <<>>
    /\ \E i \in 1..Len(candidates) : C20_Fails(candidates[i])
    /\ \E i \in 1..Len(candidates) :
          ~C20_Fails(candidates[i]) /\ C20_Clears(candidates[i])

-----------------------------------------------------------------------------
(* The candidate's parsed profile, or its personal-info mapping, is absent *)
C21_NoProfileMapping(c) ==
    c.parsed_resume.t = "None" \/ PersonalInfo(c).t = "None"

(* C21: a missing datum on a candidate or on the job (no skills vector, no
   location, no parsed profile or personal-info mapping, no experience) never
   makes search_candidates or rank_candidates_for_job fail: the call completes,
   every fetched candidate is scored, and the missing datum only gives a zero
   sub-score or a skipped criterion.
   The code reads parsed_resume.get(...) without a guard: an absent parsed
   profile raises AttributeError, which leaves search_candidates and empties
   the ranking. *)
C21_MissingDataNeverFails ==
    (call.op = "search" \/ (call.op = "rank" /\ call.job_id \in 1..Len(jobs))) =>
        /\ outcome \notin {"raised", "caught"}
        /\ Len(scan) = Len(candidates)
        /\ \A i \in 1..Len(scan) : ~scan[i].raises

(* The failing case of C21 in search: the only stored candidate has no parsed
   profile, a location is asked for, and the call raises *)
C21_FailingCase ==
    /\ call.op = "search"
    /\ Truthy(call.location)
    /\ Len(candidates) = 1
    /\ C21_NoProfileMapping(candidates[1])
    /\ outcome = "raised"

(* The failing case of C21 in ranking: the job exists, the only stored
   candidate has no parsed profile, and the failure is caught and answered
   with no candidate, whatever the job asks for *)
C21_RankFailingCase ==
    /\ call.op = "rank"
    /\ call.job_id \in 1..Len(jobs)
    /\ ~Truthy(jobs[call.job_id].location)
    /\ Len(candidates) = 1
    /\ C21_NoProfileMapping(candidates[1])
    /\ RLe(call.min_score, RInt(0))
    /\ call.limit > 0
    /\ outcome = "caught"
    /\ results = <<>>

-----------------------------------------------------------------------------
(* C22: in the list returned by search_candidates and by
   rank_candidates_for_job, two candidates with equal total scores stand in
   the order in which they were fetched: the descending sort is stable. *)
C22_TiesKeepFetchOrder ==
    (Evaluated /\ outcome = "returned") =>
        \A k \in 1..Len(results) : \A l \in 1..Len(results) :
            (k < l /\ REq(results[k].total_score, results[l].total_score))
                => results[k].candidate < results[l].candidate

(* A search returned two candidates with the same total score *)
C22_Witness ==
    /\ SearchReturned
    /\ Len(results) = 2
    /\ REq(results[1].total_score, results[2].total_score)
    /\ RLt(RInt(0), results[1].total_score)
    /\ results[1].candidate = 1
    /\ results[2].candidate = 2

(* A ranking returned two candidates with the same total score *)
C22_RankWitness ==
    /\ RankReturned
    /\ Len(results) = 2
    /\ REq(results[1].total_score, results[2].total_score)
    /\ RLt(RInt(0), results[1].total_score)
    /\ results[1].candidate = 1
    /\ results[2].candidate = 2

-----------------------------------------------------------------------------
(* No criterion is supplied to the search in progress *)
C23_NoCriterion ==
    /\ call.op = "search"
    /\ IsNone(call.skills_vectors)
    /\ IsNone(call.location)
    /\ IsNone(call.required_experience)

(* C23: a search_candidates call with no skill vectors, no location and no
   required experience returns the empty list, for every stored candidate set,
   every min_score and every limit: no weight is applied, so no candidate is
   appended. *)
C23_NoCriterionNoResult ==
    C23_NoCriterion => (outcome = "returned" /\ results = <<>>)

(* A search without any criterion ran over two stored candidates with a
   threshold that every score clears and a limit that cuts nothing *)
C23_Witness ==
    /\ C23_NoCriterion
    /\ Len(candidates) = 2
    /\ Len(scan) = 2
    /\ RLt(call.min_score, RInt(0))
    /\ call.limit = DefaultLimit
    /\ outcome = "returned"

-----------------------------------------------------------------------------
(* C25: search_candidates and rank_candidates_for_job are read-only: the step
   that evaluates a call leaves every stored candidate record and every job
   record as it was, whether the call returns candidates, returns none, or
   fails. *)
C25_CallsLeaveRecordsUnchanged ==
    [][call'.op \in {"search", "rank"} =>
          (candidates' = candidates /\ jobs' = jobs)]_vars

(* A search over two stored candidates has returned one of them *)
C25_Witness ==
    /\ SearchReturned
    /\ Len(candidates) = 2
    /\ Len(results) = 1
    /\ call.limit = DefaultLimit

(* A ranking over stored candidates has returned none of them *)
C25_EmptyWitness ==
    /\ RankReturned
    /\ Len(candidates) = 2
    /\ call.limit = DefaultLimit
    /\ results = <<>>

(* A search over stored candidates has failed *)
C25_FailedWitness ==
    /\ call.op = "search"
    /\ Len(candidates) = 2
    /\ outcome = "raised"

-----------------------------------------------------------------------------
(* No criterion of the job applies to the candidate: for each of skills,
   experience and location, the job or the candidate has no datum *)
C26_RankNothingApplies(c, job) ==
    /\ RankMissing(job.jd_vector) \/ RankMissing(c.resume_vector)
    /\ \/ ~Truthy(job.required_experience)
       \/ RankMissing(c.total_experience)
    /\ RankMissing(job.location) \/ LacksLocationData(c)

(* No criterion of the search applies to the candidate: each one is either not
   supplied or has no datum on the candidate *)
C26_SearchNothingApplies(c) ==
    /\ ~Truthy(call.skills_vectors) \/ RankMissing(c.resume_vector)
    /\ ~Truthy(call.required_experience) \/ RankMissing(c.total_experience)
    /\ ~Truthy(call.location) \/ LacksLocationData(c)

(* The ranking half of C26: such a candidate totals 0 and passes the threshold
   exactly when min_score <= 0 *)
C26_RankHalf ==
    RankReturned =>
        \A i \in 1..Len(candidates) :
            C26_RankNothingApplies(candidates[i], jobs[call.job_id]) =>
                /\ REq(scan[i].total_score, RInt(0))
                /\ i \in ReturnedCandidates => RLe(call.min_score, RInt(0))
                /\ (RLe(call.min_score, RInt(0)) /\ call.limit >= Len(candidates))
                       => i \in ReturnedCandidates

(* The search half of C26: such a candidate is never returned *)
C26_SearchHalf ==
    SearchReturned =>
        \A i \in 1..Len(candidates) :
            C26_SearchNothingApplies(candidates[i]) => i \notin ReturnedCandidates

(* C26: in rank_candidates_for_job a candidate to whom none of the three
   criteria applies (no skills vector, no experience, no location) has total
   score 0 and is returned exactly when min_score <= 0; in search_candidates a
   candidate to whom no criterion applies is never returned.
   The ranking half holds; the search half fails for a candidate whose total
   experience is None, which the search scores 0 instead of skipping. *)
C26_NothingApplies == C26_RankHalf /\ C26_SearchHalf

(* The ranking half in action: a candidate without any usable datum is
   returned with total 0 under a threshold of 0 *)
C26_RankWitness ==
    /\ RankReturned
    /\ REq(call.min_score, RInt(0))
    /\ \E k \in 1..Len(results) :
          /\ C26_RankNothingApplies(candidates[results[k].candidate],
                                    jobs[call.job_id])
          /\ Truthy(jobs[call.job_id].jd_vector)
          /\ REq(results[k].total_score, RInt(0))

(* The failing case of C26: only an experience requirement is supplied, the
   candidate's total experience is None, and the candidate is returned with a
   total of 0 *)
C26_FailingCase ==
    /\ SearchReturned
    /\ ~Truthy(call.skills_vectors)
    /\ ~Truthy(call.location)
    /\ Truthy(call.required_experience)
    /\ RLe(call.min_score, RInt(0))
    /\ \E k \in 1..Len(results) :
          /\ IsNone(candidates[results[k].candidate].total_experience)
          /\ C26_SearchNothingApplies(candidates[results[k].candidate])
          /\ REq(results[k].total_score, RInt(0))

-----------------------------------------------------------------------------
(* C27: in rank_candidates_for_job the title weight of 0.2 never enters a
   total: every total is 0.4 * skills + 0.3 * experience + 0.1 * location and
   so at most 0.8, and a call with min_score above 0.8 returns the empty list
   for every job and every candidate set. *)
C27_TotalsAtMostFourFifths ==
    call.op = "rank" =>
        /\ \A i \in 1..Len(scan) :
              ~scan[i].raises =>
                 /\ REq(scan[i].total_score,
                        RAdd(RAdd(RMul(Rat(4, 10), scan[i].skills_score),
                                  RMul(Rat(3, 10), scan[i].experience_score)),
                             RMul(Rat(1, 10), scan[i].location_score)))
                 /\ RLe(scan[i].total_score, Rat(8, 10))
        /\ RLt(Rat(8, 10), call.min_score) => results = <<>>

(* A ranking with a threshold above 0.8 scored a candidate above 0.6 on a full
   limit and returned nothing *)
C27_Witness ==
    /\ RankReturned
    /\ RLt(Rat(8, 10), call.min_score)
    /\ call.limit = DefaultLimit
    /\ \E i \in 1..Len(scan) : RLt(Rat(6, 10), scan[i].total_score)
    /\ results = <<>>

-----------------------------------------------------------------------------
(* Every segment of the query string is, after trimming and lowercasing, equal
   to some segment of the candidate string *)
C28_EverySegmentFound(q, c) ==
    LET qs == Parts(q)
        cs == Parts(c)
    IN  \A k \in 1..Len(qs) : \E l \in 1..Len(cs) : qs[k] = cs[l]

(* C28: calculate_location_match(q, c) lies in [0, 1], and it is 1.0 exactly
   when q and c are both non-empty and every trimmed, lowercased,
   comma-separated segment of q equals some segment of c. *)
C28_LocationMatchRange ==
    LocationReturned =>
        /\ InUnitInterval(results)
        /\ REq(results, RInt(1))
              <=> /\ NonEmptyString(call.x)
                  /\ NonEmptyString(call.y)
                  /\ C28_EverySegmentFound(call.x.v, call.y.v)

(* Both segments of "B,a" are found among the segments of "a,b" although the
   strings differ: the match is 1.0 *)
C28_Witness ==
    /\ LocationReturned
    /\ call.x = Str(<<"B", ",", "a">>)
    /\ call.y = Str(<<"a", ",", "B">>)
    /\ results = RInt(1)

(* One of the two segments of "a,B" is only a substring of a segment of "Ba":
   the match is below 1.0 *)
C28_BelowOneWitness ==
    /\ LocationReturned
    /\ call.x = Str(<<"a", ",", "B">>)
    /\ call.y = Str(<<"B", "a">>)
    /\ RLt(results, RInt(1))
    /\ RLt(RInt(0), results)

-----------------------------------------------------------------------------
(* C29: in the summary of every result set, excellent + good + fair <= count,
   with equality when every total is at least 0.5 (as in every search result
   obtained with min_score >= 0.5), and for a non-empty result set
   min_score <= avg_score <= max_score.
   The mean is computed in floating point: for three equal totals of 0.95 it
   comes out below the minimum, and for three totals of 0.8 above the
   maximum. *)
C29_SummaryOrdering ==
    SummaryReturned =>
        LET totals == SummaryTotals
            n == Len(totals)
            classes == results.score_distribution.excellent
                       + results.score_distribution.good
                       + results.score_distribution.fair
        IN  /\ classes <= results.count
            /\ (\A i \in 1..n : ~F64Less(totals[i], F64OfRat(Rat(1, 2))))
                  => classes = results.count
            /\ n > 0 => /\ ~F64Less(results.avg_score, results.min_score)
                        /\ ~F64Less(results.max_score, results.avg_score)

(* The histogram part of C29, which holds *)
C29_HistogramWithinCount ==
    SummaryReturned =>
        LET totals == SummaryTotals
            n == Len(totals)
            classes == results.score_distribution.excellent
                       + results.score_distribution.good
                       + results.score_distribution.fair
        IN  /\ classes <= results.count
            /\ (\A i \in 1..n : ~F64Less(totals[i], F64OfRat(Rat(1, 2))))
                  => classes = results.count
            /\ (\E i \in 1..n : F64Less(totals[i], F64OfRat(Rat(1, 2))))
                  => classes < results.count

(* The failing case of C29: three results of total 0.95 each, and a mean
   below the smallest of them *)
C29_FailingCase ==
    /\ SummaryReturned
    /\ SummaryTotals
           = <<F64OfRat(Rat(19, 20)), F64OfRat(Rat(19, 20)), F64OfRat(Rat(19, 20))>>
    /\ results.min_score = F64OfRat(Rat(19, 20))
    /\ F64Less(results.avg_score, results.min_score)

(* Three results of total 0.8 each, and a mean above the largest of them *)
C29_AboveMaximum ==
    /\ SummaryReturned
    /\ SummaryTotals
           = <<F64OfRat(Rat(4, 5)), F64OfRat(Rat(4, 5)), F64OfRat(Rat(4, 5))>>
    /\ F64Less(results.max_score, results.avg_score)

-----------------------------------------------------------------------------
(* The raw document a stored profile refers to is in the collection *)
C30_DocumentExists(profile) ==
    \E d \in raw_resumes : d._id = ObjectIdOf(profile.mongodb_id)

(* C30: after any sequence of upload_resume calls, each of which may succeed
   or fail at any step (text extraction, insertion of the raw document,
   parsing, embedding, saving the profile), every stored candidate profile
   whose mongodb_id is set refers to a raw document that exists in
   raw_resumes; a failed re-upload leaves the previously stored raw document
   in place (a failed upload leaves the profile as it was, so the second part
   is the first part in the state after the failure).
   The handler deletes the previous raw document first, before anything can
   fail: a re-upload that fails afterwards leaves the profile pointing at a
   document that is gone. *)
C30_ProfilesReferToDocuments ==
    \A i \in 1..Len(candidates) :
        Truthy(candidates[i].mongodb_id) => C30_DocumentExists(candidates[i])

(* The failing case of C30: the user's second upload failed at text
   extraction; the profile of the first upload is still stored, and the raw
   document it names is no longer in the collection *)
C30_FailingCase ==
    /\ call.op = "upload_resume"
    /\ call.fails_at = "extract_text"
    /\ outcome = "failed"
    /\ Len(candidates) = 1
    /\ candidates[1].user_id = call.user_id
    /\ candidates[1].mongodb_id = ObjectIdStr(1)
    /\ raw_resumes = {}

(* A re-upload that succeeds replaces the raw document: the profile names the
   new one, which is in the collection *)
C30_ReplacedCase ==
    /\ call.op = "upload_resume"
    /\ outcome = "stored"
    /\ Len(candidates) = 1
    /\ candidates[1].mongodb_id = ObjectIdStr(2)
    /\ raw_resumes = {[_id |-> 2, user_id |-> 1]}

-----------------------------------------------------------------------------
(* What the call c returns when it runs alone over the rows fetched *)
C24_Alone(c, fetched) ==
    IF c.op = "search"
    THEN SearchReturn(SearchScan(fetched, c), c.min_score, c.limit)
    ELSE RankReturn(RankScan(fetched, jobs, c.job_id), c.min_score, c.limit)

(* The request has handed back its answer *)
C24_Answered(r) == outcome[r] \notin {"idle", "scanning"}

(* A finished call returned what it returns alone on the rows it fetched *)
C24_SnapshotResult ==
    \A r \in Requests :
        C24_Answered(r) => results[r] = C24_Alone(call[r], scan[r].fetched)

(* A step of a call leaves the tables and the other calls as they were *)
C24_CallStep ==
    \A r \in Requests :
        (scan'[r] # scan[r] \/ outcome'[r] # outcome[r]) =>
            /\ candidates' = candidates
            /\ jobs' = jobs
            /\ \A q \in Requests \ {r} :
                  /\ call'[q] = call[q]
                  /\ scan'[q] = scan[q]
                  /\ results'[q] = results[q]
                  /\ outcome'[q] = outcome[q]

(* C24: each search or ranking call reads the candidate records once, at its
   start, and its result depends only on that snapshot and on its arguments:
   interleaved with other calls and with profile updates committed after the
   fetch, a call returns what it returns alone on its snapshot, and no call
   changes anything another call reads. *)
C24_CallsAreIsolated == []C24_SnapshotResult /\ [][C24_CallStep]_vars

(* A call has answered from a snapshot that an update has since overtaken, so
   that the same call on the table as it is now would answer differently,
   while the other request is in the middle of its loop *)
C24_Witness ==
    \E r \in Requests : \E q \in Requests \ {r} :
        /\ outcome[r] = "returned"
        /\ Len(results[r]) > 0
        /\ scan[r].fetched # candidates
        /\ results[r] # C24_Alone(call[r], candidates)
        /\ outcome[q] = "scanning"
        /\ Len(scan[q].scanned) = 1
        /\ Len(scan[q].fetched) = 2
        /\ scan[q].fetched # scan[r].fetched

====
